---------------------------- MODULE Spec2Model ----------------------------
(***************************************************************************)
(* A model of the reactive-leds firmware: the glow-point animation engine  *)
(* and the crossfade transition engine of the LEDPatterns library          *)
(* (src/lib/LEDPatterns/src/LEDPatterns.cpp, first revision in the file),  *)
(* the debounced signal conditioner of the main loop                       *)
(* (src/unnamed/part_001, loop()), and the earlier target-buffer revision  *)
(* of the library (src/unnamed/part_002), whose state carries the prefix   *)
(* tb.                                                                     *)
(*                                                                         *)
(* The firmware is single threaded.  Each component owns its own globals,  *)
(* so each component is given its own specification over its variables;    *)
(* the other variables stay as Init leaves them.                           *)
(*                                                                         *)
(* A pixel (CRGB) is modelled by one 8-bit colour channel: the library     *)
(* treats the three channels alike in blend() and in operator+=.           *)
(***************************************************************************)
EXTENDS Integers, Sequences, FiniteSets, TLC

VARIABLES
    revision,               \* which revision of the library the build links
    glowPoints,             \* LEDPatterns::glowPoints[MAX_GLOW_POINTS]
    leds,                   \* the CRGB frame buffer shared with FastLED
    spawn,                  \* what the spawn phase of the last gentleGlow did
    presence,               \* presence channel of the signal conditioner
    motion,                 \* motion channel of the signal conditioner
    run,                    \* per channel, the length of the current run of polls
    prevLeds,               \* LEDPatterns::prevLeds
    transitionActive,       \* LEDPatterns::transitionActive
    transitionStartTime,    \* LEDPatterns::transitionStartTime
    transitionDuration,     \* LEDPatterns::transitionDuration
    now,                    \* millis()
    lastCall,               \* the last library call made and what it returned
    rendered,               \* the frame the last pattern call drew into leds
    mainRevision,           \* which revision of updateLEDPattern the build holds
    smoothedPresenceIntensity,  \* float, in units of 1 / SmoothUnit
    smoothedMotionIntensity,    \* float, in units of 1 / SmoothUnit
    lastHue,                \* main: last-applied hue
    lastBrightness,         \* main: last-applied brightness
    lastSpeed,              \* main: last-applied speed
    lastSpread,             \* main: last-applied spread
    lastPatternChange,      \* main: time of the last applied change
    lastUpdate,             \* updateLEDPattern: static lastUpdate
    lastTransitionStart,    \* updateLEDPattern: static lastTransitionStart
    updTransitionActive,    \* updateLEDPattern: static transitionActive
    patternCall,            \* how the last updateLEDPattern call ended
    idleFor,                \* ms for which both channels have been undetected
    env,                    \* the sensor's last readings and how often they changed
    sample,                 \* inputs and result of the intensity computation
    tbPoints,               \* target-buffer revision: _glowPoints[MAX_GLOW_POINTS]
    tbActive,               \* target-buffer revision: _activeGlowPoints
    tbLastGlowUpdate,       \* target-buffer revision: _lastGlowUpdate
    tbLeds,                 \* target-buffer revision: _leds
    tbTargetLeds,           \* target-buffer revision: _targetLeds
    tbPreviousLeds,         \* target-buffer revision: _previousLeds
    tbTransitioning,        \* target-buffer revision: _isTransitioning
    tbStartTime,            \* target-buffer revision: _transitionStartTime
    tbDuration,             \* target-buffer revision: _transitionDuration
    tbCall                  \* target-buffer revision: the last call and its outcome

glowVars == <<glowPoints, leds, spawn>>
sensorVars == <<presence, motion, run>>
transVars == <<prevLeds, transitionActive, transitionStartTime,
               transitionDuration, now, lastCall>>
mapperVars == <<mainRevision, smoothedPresenceIntensity, smoothedMotionIntensity,
                lastHue, lastBrightness, lastSpeed, lastSpread, lastPatternChange,
                lastUpdate, lastTransitionStart, updTransitionActive,
                patternCall, idleFor, env>>
tbVars == <<tbPoints, tbActive, tbLastGlowUpdate, tbLeds, tbTargetLeds,
            tbPreviousLeds, tbTransitioning, tbStartTime, tbDuration, tbCall>>
vars == <<revision, glowPoints, leds, spawn, presence, motion, run, prevLeds,
          transitionActive, transitionStartTime, transitionDuration, now,
          lastCall, rendered, mainRevision, smoothedPresenceIntensity,
          smoothedMotionIntensity, lastHue, lastBrightness, lastSpeed,
          lastSpread, lastPatternChange, lastUpdate, lastTransitionStart,
          updTransitionActive, patternCall, idleFor, env, sample, tbPoints, tbActive, tbLastGlowUpdate, tbLeds,
          tbTargetLeds, tbPreviousLeds, tbTransitioning, tbStartTime,
          tbDuration, tbCall>>

\* The two revisions of the LEDPatterns library the sources hold.
Revisions == {"current", "targetBuffer"}

----------------------------------------------------------------------------
(* C arithmetic                                                            *)

Abs(x) == IF x < 0 THEN -x ELSE x

Min(a, b) == IF a < b THEN a ELSE b

Max(a, b) == IF a > b THEN a ELSE b

\* C integer division truncates toward zero.
CDiv(a, b) ==
    IF (a >= 0) = (b > 0) THEN Abs(a) \div Abs(b) ELSE -(Abs(a) \div Abs(b))

\* C remainder has the sign of the dividend.
CRem(a, b) == a - b * CDiv(a, b)

\* Conversion of an int to uint8_t.
U8(x) == x % 256

\* Arduino map(): (x - in_min) * (out_max - out_min) / (in_max - in_min) + out_min
ArduinoMap(x, inMin, inMax, outMin, outMax) ==
    CDiv((x - inMin) * (outMax - outMin), inMax - inMin) + outMin

\* FastLED qadd8: saturating 8-bit addition, the channel operation of CRGB +=.
qadd8(a, b) == Min(a + b, 255)

----------------------------------------------------------------------------
(* Glow-point animation engine                                             *)

MAX_GLOW_POINTS == 5

\* Strip length (LED_COUNT of the build) used by the model.
NumLeds == 3

Slots == 0 .. (MAX_GLOW_POINTS - 1)

Growing == 1
Stable == 0
Fading == -1

\* The value of addGlowPoint's result when gentleGlow did not call it.
NoCall == -2

\* Static storage: the pool is zero-initialised, then the constructor clears
\* every active flag.
EmptyPoint ==
    [active |-> FALSE, pos |-> 0, hue |-> 0, spread |-> 0, maxIntensity |-> 0,
     currentIntensity |-> 0, state |-> 0]

Black == [i \in 0 .. (NumLeds - 1) |-> 0]

ActiveCountOf(pool) == Cardinality({i \in DOMAIN pool : pool[i].active})

FreeSlots(pool) == {i \in Slots : ~pool[i].active}

\* The slot the scan of addGlowPoint stops at: the lowest inactive one.
FirstFree(pool) == CHOOSE i \in FreeSlots(pool) : \A j \in FreeSlots(pool) : i <= j

\* A point as addGlowPoint writes it.
NewPoint(pos, hue, spreadArg, intensity) ==
    [active |-> TRUE, pos |-> pos, hue |-> hue, spread |-> spreadArg,
     maxIntensity |-> intensity, currentIntensity |-> 0, state |-> Growing]

\* addGlowPoint(pos, hue, spread, intensity): the pool afterwards and the
\* value returned.
addGlowPoint(pool, pos, hue, spreadArg, intensity) ==
    IF FreeSlots(pool) = {}
    THEN [pool |-> pool, ret |-> -1]
    ELSE LET i == FirstFree(pool) IN
         [pool |-> [pool EXCEPT ![i] = NewPoint(pos, hue, spreadArg, intensity)],
          ret |-> i]

\* A step without the floor of 1.
ChangeNoFloor(speed) == speed \div 20

\* uint8_t change = max(1, speed / 20)
Change(speed) == Max(1, speed \div 20)

\* A Growing branch that leaves out the cap at the point's own maximum.
GrowStepUncapped(p, change) ==
    LET raised == IF 255 - p.currentIntensity > change
                  THEN p.currentIntensity + change
                  ELSE 255
    IN  [p EXCEPT !.currentIntensity = raised,
                  !.state = IF raised >= p.maxIntensity THEN Stable ELSE Growing]

\* The Growing branch of updateGlowPoint: add the step without overflow, cap
\* at the point's own maximum, and turn Stable on reaching it.
GrowStep(p, change) ==
    LET raised == IF 255 - p.currentIntensity > change
                  THEN p.currentIntensity + change
                  ELSE 255
        capped == IF raised > p.maxIntensity THEN p.maxIntensity ELSE raised
    IN  [p EXCEPT !.currentIntensity = capped,
                  !.state = IF capped >= p.maxIntensity THEN Stable ELSE Growing]

\* A Fading branch that removes the point at twice the step.
FadeStepEarly(p, change) ==
    IF p.currentIntensity <= 2 * change
    THEN [p EXCEPT !.active = FALSE]
    ELSE [p EXCEPT !.currentIntensity = p.currentIntensity - change]

\* A Fading branch that stops at the step and never removes the point.
FadeStepNeverRemoves(p, change) ==
    IF p.currentIntensity <= change
    THEN p
    ELSE [p EXCEPT !.currentIntensity = p.currentIntensity - change]

\* The Fading branch: deactivate at or below the step, else subtract it.
FadeStep(p, change) ==
    IF p.currentIntensity <= change
    THEN [p EXCEPT !.active = FALSE]
    ELSE [p EXCEPT !.currentIntensity = p.currentIntensity - change]

\* A Stable branch that sets the state to 1 where the code sets -1.
StableStepRegrow(p, roll) ==
    IF roll < 5 THEN [p EXCEPT !.state = Growing] ELSE p

\* The Stable branch: random8() < 5 starts the fade.
StableStep(p, roll) ==
    IF roll < 5 THEN [p EXCEPT !.state = Fading] ELSE p

\* updateGlowPoint(index, speed) on the point p of that slot; roll is the
\* value random8() gives if the Stable branch asks for it.
updateGlowPoint(p, speed, roll) ==
    IF ~p.active THEN p
    ELSE LET q == IF p.state \notin {Growing, Stable, Fading}
                  THEN [p EXCEPT !.state = Fading] ELSE p
             change == Change(speed)
         IN  IF q.state = Growing THEN GrowStep(q, change)
             ELSE IF q.state = Fading THEN FadeStep(q, change)
             ELSE StableStep(q, roll)

\* intensity * falloff, falloff = 1 - i*i / (spread+1)^2, converted to uint8_t.
FalloffValue(intensity, spreadArg, i) ==
    (intensity * ((spreadArg + 1) * (spreadArg + 1) - i * i))
        \div ((spreadArg + 1) * (spreadArg + 1))

\* Position with wraparound: (pos + i) % numLeds, plus numLeds if negative.
WrapPos(pos, i) ==
    LET r == CRem(pos + i, NumLeds) IN IF r < 0 THEN r + NumLeds ELSE r

RECURSIVE SumOver(_, _, _, _)
\* The sum over the offsets lo .. hi of what renderGlowPoint adds to pixel at.
SumOver(p, at, lo, hi) ==
    IF lo > hi THEN 0
    ELSE IF lo = hi
    THEN IF WrapPos(p.pos, lo) = at
         THEN FalloffValue(p.currentIntensity, p.spread, lo) ELSE 0
    ELSE LET mid == (lo + hi) \div 2
         IN  SumOver(p, at, lo, mid) + SumOver(p, at, mid + 1, hi)

\* renderGlowPoint(index): for i = -spread .. spread, leds[actualPos] += rgb.
\* The additions saturate, so a pixel ends at its old value plus the sum of
\* what the loop adds to it, capped at 255.
renderGlowPoint(buf, p) ==
    IF ~p.active THEN buf
    ELSE [at \in DOMAIN buf |-> qadd8(buf[at], SumOver(p, at, -p.spread, p.spread))]

RECURSIVE UpdateLoop(_, _, _, _)
\* The first loop of gentleGlow over the slots i .. MAX_GLOW_POINTS-1: update
\* each active point and render it if it is still active.
UpdateLoop(st, speed, rolls, i) ==
    IF i >= MAX_GLOW_POINTS THEN st
    ELSE IF ~st.pool[i].active THEN UpdateLoop(st, speed, rolls, i + 1)
    ELSE LET q == updateGlowPoint(st.pool[i], speed, rolls[i])
         IN  UpdateLoop([pool |-> [st.pool EXCEPT ![i] = q],
                         buf |-> renderGlowPoint(st.buf, q)],
                        speed, rolls, i + 1)

\* The spawn threshold: map(speed, 0, 255, 250, 180) stored in a uint8_t.
SpawnThreshold(speed) == U8(ArduinoMap(speed, 0, 255, 250, 180))

\* A spawn phase without the capacity test whose scan runs one slot past the
\* end of the pool.
SpawnPastEnd(pool, hue, brightness, speed, spreadArg, r) ==
    LET activeCount == ActiveCountOf(pool)
        trigger == r.roll > SpawnThreshold(speed)
        pt == NewPoint(r.pos, U8(hue + r.hueVar - 5), U8(spreadArg + r.spreadVar - 1),
                       U8(brightness - r.intensityVar))
    IN  IF ~trigger
        THEN [pool |-> pool,
              info |-> [trigger |-> trigger, activeCount |-> activeCount,
                        ret |-> NoCall]]
        ELSE IF FreeSlots(pool) = {}
        THEN [pool |-> pool @@ (MAX_GLOW_POINTS :> pt),
              info |-> [trigger |-> trigger, activeCount |-> activeCount,
                        ret |-> MAX_GLOW_POINTS]]
        ELSE [pool |-> [pool EXCEPT ![FirstFree(pool)] = pt],
              info |-> [trigger |-> trigger, activeCount |-> activeCount,
                        ret |-> FirstFree(pool)]]

\* A spawn phase without the capacity test that reuses slot 0 when the pool
\* is full.
SpawnEvicting(pool, hue, brightness, speed, spreadArg, r) ==
    LET activeCount == ActiveCountOf(pool)
        trigger == r.roll > SpawnThreshold(speed)
        pt == NewPoint(r.pos, U8(hue + r.hueVar - 5), U8(spreadArg + r.spreadVar - 1),
                       U8(brightness - r.intensityVar))
        slot == IF FreeSlots(pool) = {} THEN 0 ELSE FirstFree(pool)
    IN  IF ~trigger
        THEN [pool |-> pool,
              info |-> [trigger |-> trigger, activeCount |-> activeCount,
                        ret |-> NoCall]]
        ELSE [pool |-> [pool EXCEPT ![slot] = pt],
              info |-> [trigger |-> trigger, activeCount |-> activeCount,
                        ret |-> slot]]

\* The spawn phase of gentleGlow: count the active points and, below the
\* capacity, roll for a new one.  r is the record of the random draws.
SpawnPhase(pool, hue, brightness, speed, spreadArg, r) ==
    LET activeCount == ActiveCountOf(pool)
        trigger == r.roll > SpawnThreshold(speed)
    IN  IF activeCount < MAX_GLOW_POINTS /\ trigger
        THEN LET a == addGlowPoint(pool, r.pos, U8(hue + r.hueVar - 5),
                                   U8(spreadArg + r.spreadVar - 1),
                                   U8(brightness - r.intensityVar))
             IN  [pool |-> a.pool,
                  info |-> [trigger |-> trigger, activeCount |-> activeCount,
                            ret |-> a.ret]]
        ELSE [pool |-> pool,
              info |-> [trigger |-> trigger, activeCount |-> activeCount,
                        ret |-> NoCall]]

\* gentleGlow(hue, brightness, speed, spread) as one step.
GentleGlowResult(pool, hue, brightness, speed, spreadArg, rolls, r) ==
    LET upd == UpdateLoop([pool |-> pool, buf |-> Black], speed, rolls, 0)
        sp == SpawnPhase(upd.pool, hue, brightness, speed, spreadArg, r)
    IN  [pool |-> sp.pool, buf |-> upd.buf, info |-> sp.info]

\* The same call acting on the library's state.
GentleGlowStep(hue, brightness, speed, spreadArg, rolls, r) ==
    LET g == GentleGlowResult(glowPoints, hue, brightness, speed, spreadArg, rolls, r)
    IN  /\ glowPoints' = g.pool
        /\ leds' = g.buf
        /\ spawn' = g.info

\* The slots whose point takes the Stable branch in the update loop.
StableSlots(pool) == {i \in Slots : pool[i].active /\ pool[i].state = Stable}

\* random8() values standing for the two outcomes of random8() < 5.
FadeRoll == 0
KeepRoll == 255

RollsFor(fading) == [i \in Slots |-> IF i \in fading THEN FadeRoll ELSE KeepRoll]

\* Inputs of the pool specification: one colour and one size of point, two
\* speeds (steps 1 and 2), so that five points can be alive together.
PoolArgs == [hue : {160}, brightness : {2}, speed : {0, 40}, spread : {1}]
PoolDraws == [roll : {0, 255}, pos : {1}, hueVar : {5}, spreadVar : {1},
              intensityVar : {0}]

\* Inputs of the single-point specification: the 8-bit extremes (steps 1, 2
\* and 12; full brightness and a brightness below the jitter; spread 3 and
\* spread 0) on a pool that holds one live point at a time.
WideArgs ==
    {[hue |-> 160, brightness |-> b.brightness, speed |-> sp, spread |-> b.spread] :
        b \in {[brightness |-> 255, spread |-> 3], [brightness |-> 5, spread |-> 0]},
        sp \in {0, 40, 255}}
WideDraws ==
    {[roll |-> r, pos |-> ps, hueVar |-> j.hueVar, spreadVar |-> j.spreadVar,
      intensityVar |-> j.intensityVar] :
        r \in {0, 255}, ps \in 0 .. (NumLeds - 1),
        j \in {[hueVar |-> 0, spreadVar |-> 0, intensityVar |-> 19],
               [hueVar |-> 9, spreadVar |-> 1, intensityVar |-> 0]}}

\* A gentleGlow call whose spawn roll does not exceed the threshold.  The
\* hue, brightness and spread arguments and the other draws are read only by
\* a spawn, so one representative of each is taken.
GlowNoTrigger(Args, Draws) ==
    \E speed \in {a.speed : a \in Args} :
    \E fading \in SUBSET StableSlots(glowPoints) :
    \E roll \in {d.roll : d \in Draws} :
        /\ roll <= SpawnThreshold(speed)
        /\ LET a == CHOOSE x \in Args : x.speed = speed
               d == CHOOSE x \in Draws : x.roll = roll
           IN  GentleGlowStep(a.hue, a.brightness, speed, a.spread,
                              RollsFor(fading), d)

\* A gentleGlow call whose spawn roll exceeds the threshold.
GlowTrigger(Args, Draws) ==
    \E speed \in {a.speed : a \in Args} :
    \E fading \in SUBSET StableSlots(glowPoints) :
    \E roll \in {d.roll : d \in Draws} :
        /\ roll > SpawnThreshold(speed)
        /\ \E a \in {x \in Args : x.speed = speed} :
           \E d \in {x \in Draws : x.roll = roll} :
               GentleGlowStep(a.hue, a.brightness, speed, a.spread,
                              RollsFor(fading), d)

GlowInit ==
    /\ glowPoints = [i \in Slots |-> EmptyPoint]
    /\ leds = Black
    /\ spawn = [trigger |-> FALSE, activeCount |-> 0, ret |-> NoCall]

\* The pool specification: gentleGlow called over and over on the five slots.
PoolGlowQuiet == revision = "current" /\ GlowNoTrigger(PoolArgs, PoolDraws) /\ UNCHANGED <<revision, mapperVars, rendered, tbVars, sensorVars, transVars, sample>>

PoolGlowSpawn == revision = "current" /\ GlowTrigger(PoolArgs, PoolDraws) /\ UNCHANGED <<revision, mapperVars, rendered, tbVars, sensorVars, transVars, sample>>

\* The single-point specification: a spawn roll succeeds only on an empty pool.
WideGlowQuiet == revision = "current" /\ GlowNoTrigger(WideArgs, WideDraws) /\ UNCHANGED <<revision, mapperVars, rendered, tbVars, sensorVars, transVars, sample>>

WideGlowSpawn ==
    /\ revision = "current"
    /\ ActiveCountOf(glowPoints) = 0
    /\ GlowTrigger(WideArgs, WideDraws)
    /\ UNCHANGED <<revision, mapperVars, rendered, tbVars, sensorVars, transVars, sample>>

----------------------------------------------------------------------------
(* Signal conditioner: the debounce blocks of loop()                       *)

PRESENCE_LOG_SCALE_FACTOR == 60
MOTION_LOG_SCALE_FACTOR == 70
PRESENCE_MIN_VALUE == 70
MOTION_MIN_VALUE == 70
DEBOUNCE_COUNT == 3
INTENSITY_MAX == 255

\* Entry k is the least n with 60 * log10(n) >= k, for n up to 32769.
Log60Steps ==
    <<2, 2, 2, 2, 2, 2, 2, 2, 2, 2, 2, 2,
       2, 2, 2, 2, 2, 2, 3, 3, 3, 3, 3, 3,
       3, 3, 3, 3, 4, 4, 4, 4, 4, 4, 4, 4,
       5, 5, 5, 5, 5, 6, 6, 6, 6, 6, 7, 7,
       7, 7, 8, 8, 8, 8, 9, 9, 9, 10, 10, 10,
       11, 11, 12, 12, 13, 13, 14, 14, 15, 15, 16, 16,
       17, 18, 18, 19, 20, 20, 21, 22, 23, 24, 25, 26,
       27, 28, 29, 30, 31, 32, 33, 35, 36, 37, 39, 40,
       42, 43, 45, 47, 49, 51, 53, 55, 57, 59, 61, 64,
       66, 69, 71, 74, 77, 80, 83, 86, 90, 93, 97, 100,
       104, 108, 113, 117, 122, 126, 131, 136, 142, 147, 153, 159,
       165, 172, 178, 185, 193, 200, 208, 216, 224, 233, 242, 252,
       262, 272, 282, 293, 305, 317, 329, 342, 355, 369, 384, 399,
       414, 430, 447, 465, 483, 502, 521, 542, 563, 585, 608, 631,
       656, 682, 708, 736, 765, 795, 826, 858, 892, 927, 963, 1000,
       1040, 1080, 1123, 1166, 1212, 1259, 1309, 1360, 1413, 1468, 1526, 1585,
       1647, 1712, 1779, 1848, 1921, 1996, 2074, 2155, 2239, 2327, 2418, 2512,
       2611, 2713, 2819, 2929, 3044, 3163, 3286, 3415, 3549, 3687, 3832, 3982,
       4137, 4299, 4467, 4642, 4824, 5012, 5208, 5412, 5624, 5844, 6073, 6310,
       6557, 6813, 7080, 7357, 7645, 7944, 8255, 8577, 8913, 9262, 9624, 10000,
       10392, 10798, 11221, 11660, 12116, 12590, 13082, 13594, 14126, 14678, 15253, 15849,
       16469, 17114, 17783, 18479, 19202, 19953, 20734, 21545, 22388, 23264, 24174, 25119,
       26102, 27123, 28184, 29287, 30433, 31623>>

\* Entry k is the least n with 70 * log10(n) >= k, for n up to 32769.
Log70Steps ==
    <<2, 2, 2, 2, 2, 2, 2, 2, 2, 2, 2, 2,
       2, 2, 2, 2, 2, 2, 2, 2, 2, 3, 3, 3,
       3, 3, 3, 3, 3, 3, 3, 3, 3, 4, 4, 4,
       4, 4, 4, 4, 4, 4, 5, 5, 5, 5, 5, 5,
       6, 6, 6, 6, 6, 6, 7, 7, 7, 7, 7, 8,
       8, 8, 8, 9, 9, 9, 10, 10, 10, 10, 11, 11,
       12, 12, 12, 13, 13, 14, 14, 14, 15, 15, 16, 16,
       17, 17, 18, 19, 19, 20, 20, 21, 22, 23, 23, 24,
       25, 26, 26, 27, 28, 29, 30, 31, 32, 33, 34, 35,
       37, 38, 39, 40, 42, 43, 44, 46, 47, 49, 51, 52,
       54, 56, 58, 60, 62, 64, 66, 68, 70, 72, 75, 77,
       80, 83, 85, 88, 91, 94, 97, 100, 104, 107, 111, 115,
       118, 122, 126, 131, 135, 139, 144, 149, 154, 159, 164, 170,
       175, 181, 187, 194, 200, 207, 214, 221, 228, 236, 244, 252,
       260, 269, 278, 287, 297, 306, 317, 327, 338, 350, 361, 373,
       386, 399, 412, 426, 440, 455, 470, 485, 502, 518, 536, 554,
       572, 591, 611, 631, 653, 674, 697, 720, 744, 769, 795, 821,
       849, 877, 907, 937, 968, 1000, 1034, 1069, 1104, 1141, 1179, 1219,
       1259, 1302, 1345, 1390, 1436, 1484, 1534, 1585, 1638, 1693, 1750, 1808,
       1869, 1931, 1996, 2062, 2131, 2203, 2276, 2352, 2431, 2512, 2596, 2683,
       2773, 2866, 2961, 3060, 3163, 3269, 3378, 3491, 3607, 3728, 3853, 3982,
       4115, 4252, 4394, 4541, 4693, 4850, 5012, 5180, 5353, 5532, 5717, 5908,
       6106, 6310, 6521, 6739, 6964, 7197, 7438, 7687, 7944, 8209, 8484, 8768,
       9061, 9364, 9677, 10000, 10335, 10681, 11038, 11407, 11788, 12182, 12590, 13011,
       13446, 13895, 14360, 14840, 15337, 15849, 16379, 16927, 17493, 18078, 18683, 19307,
       19953, 20620, 21310, 22023, 22759, 23520, 24307, 25119, 25959, 26827, 27725, 28652,
       29610, 30600, 31623, 32681>>

\* log10(n) * scale with the fraction dropped, n in 1 .. 32769.
LogScaled(n, scale) ==
    LET t == IF scale = PRESENCE_LOG_SCALE_FACTOR THEN Log60Steps ELSE Log70Steps
    IN  Cardinality({k \in 1 .. Len(t) : t[k] <= n})

\* What a build makes of an out-of-range float to uint8_t conversion, which
\* is undefined: it keeps the low eight bits of the integer part or saturates.
CastBuilds == {"wraps", "saturates"}

\* (uint8_t)x for a float x >= 0 with integer part x.
FloatToU8(x, build) ==
    IF x <= 255 THEN x ELSE IF build = "wraps" THEN x % 256 ELSE 255

\* Arduino constrain(x, lo, hi)
Constrain(x, lo, hi) == IF x < lo THEN lo ELSE IF x > hi THEN hi ELSE x

\* constrain((uint8_t)(log10(abs(raw) + 1) * scale), 0, INTENSITY_MAX)
IntensityOn(build, raw, scale) ==
    Constrain(FloatToU8(LogScaled(Abs(raw) + 1, scale), build), 0, INTENSITY_MAX)

\* The values the assignment can store, over the builds.
IntensityOutcomes(raw, scale) == {IntensityOn(b, raw, scale) : b \in CastBuilds}

\* Channel state at start-up (the globals' initialisers).  The raw value is
\* read afresh from the sensor in every pass before it is used, so it is an
\* input of the step and not part of the channel state.
ChannelInit ==
    [detected |-> FALSE, intensity |-> 0, detectionCount |-> 0,
     nonDetectionCount |-> 0]

\* abs(value) > MIN_VALUE
AboveThreshold(raw, minValue) == Abs(raw) > minValue

\* A block condition that takes either of the two tests.
BlockConditionEither(raw, flag, minValue) == AboveThreshold(raw, minValue) \/ flag

\* The condition of a debounce block: aboveThreshold && newDetected.
BlockCondition(raw, flag, minValue) == AboveThreshold(raw, minValue) /\ flag

\* A counter test that needs one poll more than the debounce count.
DebounceReachedLate(count) == count > DEBOUNCE_COUNT

\* A counter test that is met one poll before the debounce count.
DebounceReachedEarly(count) == count >= DEBOUNCE_COUNT - 1

\* Whether a counter has reached the debounce count.
DebounceReached(count) == count >= DEBOUNCE_COUNT

\* The increment of a two-bit counter, which wraps to 0.
CountUpWrapping(count) == (count + 1) % 4

\* min(count + 1, 255)
CountUp(count) == Min(count + 1, 255)

\* A debounce block that clears the flag and leaves the intensity as it was.
DebounceStepKeepsIntensity(ch, raw, flag, minValue, v) ==
    IF BlockCondition(raw, flag, minValue)
    THEN LET dc == CountUp(ch.detectionCount)
         IN  [detected |-> IF DebounceReached(dc) THEN TRUE ELSE ch.detected,
              intensity |-> IF DebounceReached(dc) THEN v ELSE ch.intensity,
              detectionCount |-> dc,
              nonDetectionCount |-> 0]
    ELSE LET nc == CountUp(ch.nonDetectionCount)
         IN  [detected |-> IF DebounceReached(nc) THEN FALSE ELSE ch.detected,
              intensity |-> ch.intensity,
              detectionCount |-> 0,
              nonDetectionCount |-> nc]

\* One debounce block of loop(): raw is the value read, flag the hardware
\* flag, v the intensity the assignment stores if it is reached.
DebounceStep(ch, raw, flag, minValue, v) ==
    IF BlockCondition(raw, flag, minValue)
    THEN LET dc == CountUp(ch.detectionCount)
         IN  [detected |-> IF DebounceReached(dc) THEN TRUE ELSE ch.detected,
              intensity |-> IF DebounceReached(dc) THEN v ELSE ch.intensity,
              detectionCount |-> dc,
              nonDetectionCount |-> 0]
    ELSE LET nc == CountUp(ch.nonDetectionCount)
         IN  [detected |-> IF DebounceReached(nc) THEN FALSE ELSE ch.detected,
              intensity |-> IF DebounceReached(nc) THEN 0 ELSE ch.intensity,
              detectionCount |-> 0,
              nonDetectionCount |-> nc]

\* Raw readings offered to each channel: a qualifying one, the floor itself
\* and zero.
RawVals == {-200, 70, 0}

\* The (reading, hardware flag) pairs offered to each channel in a pass.
SensorSamples ==
    {[raw |-> -200, flag |-> TRUE], [raw |-> -200, flag |-> FALSE],
     [raw |-> 70, flag |-> TRUE], [raw |-> 0, flag |-> TRUE],
     [raw |-> 0, flag |-> FALSE]}

\* The longest run of like polls the run counters tell apart.
RunCap == 4

\* A sample qualifies when |raw| exceeds the floor and the hardware flag is set.
SampleQualifies(raw, flag, floor) == Abs(raw) > floor /\ flag

\* The history of a channel's polls after one more poll on the channel state
\* ch: q counts the latest consecutive qualifying polls and nq the latest
\* consecutive non-qualifying ones, each up to RunCap; sat tells, while the
\* non-qualifying run is shorter than RunCap, that it began with the detect
\* counter saturated.
RunAfter(r, qualifies, ch) ==
    [q |-> IF qualifies THEN Min(r.q + 1, RunCap) ELSE 0,
     nq |-> IF qualifies THEN 0 ELSE Min(r.nq + 1, RunCap),
     sat |-> IF qualifies \/ r.nq + 1 >= RunCap THEN FALSE
             ELSE IF r.nq = 0 THEN ch.detectionCount = 255
             ELSE r.sat]

RunInit == [q |-> 0, nq |-> 0, sat |-> FALSE]

\* The number of passes since start-up while every pass so far has read
\* presence -200 with the flag set and there were at most RunCap of them;
\* -1 afterwards.
BootAfter(n, raw, flag) ==
    IF n >= 0 /\ n < RunCap /\ raw = -200 /\ flag THEN n + 1 ELSE -1

\* Intensity outcomes computed with the other channel's scale factor.
PresenceOutcomesMotionScale ==
    [r \in RawVals |-> IntensityOutcomes(r, MOTION_LOG_SCALE_FACTOR)]

\* The intensity outcomes of the readings offered, per channel.
PresenceOutcomes == [r \in RawVals |-> IntensityOutcomes(r, PRESENCE_LOG_SCALE_FACTOR)]
MotionOutcomes == [r \in RawVals |-> IntensityOutcomes(r, MOTION_LOG_SCALE_FACTOR)]

\* One pass of loop() through both debounce blocks.
PollSensors ==
    /\ \E sp \in SensorSamples :
       \E vP \in PresenceOutcomes[sp.raw] :
           /\ presence' = DebounceStep(presence, sp.raw, sp.flag, PRESENCE_MIN_VALUE, vP)
           /\ \E sm \in SensorSamples :
              \E vM \in MotionOutcomes[sm.raw] :
                  /\ motion' = DebounceStep(motion, sm.raw, sm.flag, MOTION_MIN_VALUE, vM)
                  /\ run' = [p |-> RunAfter(run.p,
                                            SampleQualifies(sp.raw, sp.flag, PRESENCE_MIN_VALUE),
                                            presence),
                             m |-> RunAfter(run.m,
                                            SampleQualifies(sm.raw, sm.flag, MOTION_MIN_VALUE),
                                            motion),
                             boot |-> BootAfter(run.boot, sp.raw, sp.flag)]
    /\ UNCHANGED <<revision, mapperVars, rendered, tbVars, glowVars, transVars, sample>>

SensorInit ==
    /\ presence = ChannelInit
    /\ motion = ChannelInit
    /\ run = [p |-> RunInit, m |-> RunInit, boot |-> 0]

\* Raw readings for the intensity computation on its own: both ends of the
\* int16_t range, the floor, and values on either side of the point where
\* log10(|raw| + 1) * scale passes 255 (17782 for 60, 4393 for 70).
RawSamples == {-32768, -20000, -4500, -200, 0, 71, 4000, 17000, 32767}

SampleIdle ==
    [a |-> 0, b |-> 0, scale |-> 0, build |-> "wraps", ia |-> 0, ib |-> 0,
     done |-> FALSE]

\* The intensity assignment of a debounce block applied to two readings by
\* the same build.
ComputeIntensity ==
    /\ ~sample.done
    /\ sample' = [sample EXCEPT
                     !.ia = IntensityOn(sample.build, sample.a, sample.scale),
                     !.ib = IntensityOn(sample.build, sample.b, sample.scale),
                     !.done = TRUE]
    /\ UNCHANGED <<revision, mapperVars, rendered, tbVars, glowVars, sensorVars, transVars>>

----------------------------------------------------------------------------
(* Transition engine                                                       *)

\* FastLED blend8: ((a * (255 - amt)) + a + (b * amt) + b) >> 8
blend8(a, b, amountOfB) ==
    (a * (255 - amountOfB) + a + b * amountOfB + b) \div 256

\* A blend that takes amountOfB of the first colour instead.
blendSwapped(a, b, amountOfB) ==
    IF amountOfB = 0 THEN b
    ELSE IF amountOfB = 255 THEN a
    ELSE blend8(b, a, amountOfB)

\* FastLED blend(p1, p2, amountOfP2) on one channel.
blend(a, b, amountOfB) ==
    IF amountOfB = 0 THEN a
    ELSE IF amountOfB = 255 THEN b
    ELSE blend8(a, b, amountOfB)

\* progress * 255 converted to fract8, progress = elapsed / duration < 1.
ProgressAmount(elapsed, duration) == (elapsed * 255) \div duration

\* The latest time the model's clock reaches.
MaxNow == 4

\* Durations passed to startTransition and steps of the clock between calls.
Durations == {0, 3}
ClockSteps == {1, 2}

\* captureCurrentState()
CaptureCurrentState ==
    /\ revision = "current"
    /\ prevLeds' = leds
    /\ lastCall' = [op |-> "captureCurrentState", ret |-> FALSE]
    /\ UNCHANGED <<revision, mapperVars, rendered, tbVars, glowVars, sensorVars, sample, transitionActive,
                   transitionStartTime, transitionDuration, now>>

\* A startTransition that keeps the start time of a transition under way.
StartTransitionKeepingStart ==
    /\ revision = "current"
    /\ \E d \in Durations :
           /\ transitionActive' = TRUE
           /\ transitionStartTime' =
                  IF transitionActive THEN transitionStartTime ELSE now
           /\ transitionDuration' = d
           /\ lastCall' = [op |-> "startTransition", ret |-> FALSE,
                           duration |-> d, restart |-> transitionActive]
    /\ UNCHANGED <<revision, mapperVars, rendered, tbVars, glowVars, sensorVars, sample, prevLeds, now>>

\* startTransition(duration); the call record keeps the argument and whether
\* a transition was under way.
StartTransition ==
    /\ revision = "current"
    /\ \E d \in Durations :
           /\ transitionActive' = TRUE
           /\ transitionStartTime' = now
           /\ transitionDuration' = d
           /\ lastCall' = [op |-> "startTransition", ret |-> FALSE,
                           duration |-> d, restart |-> transitionActive]
    /\ UNCHANGED <<revision, mapperVars, rendered, tbVars, glowVars, sensorVars, sample, prevLeds, now>>

\* elapsed = currentTime - transitionStartTime
Elapsed == now - transitionStartTime

\* A completion test that ends the transition one millisecond early.
TransitionCompleteEarly(elapsed, duration) == elapsed + 1 >= duration

\* Whether updateTransitions finds the transition complete.
TransitionComplete(elapsed, duration) == elapsed >= duration

\* An updateTransitions() that takes a duration of zero for a transition
\* that never completes.
TransitionTickZeroNeverEnds(buf, prev, active, start, duration, t) ==
    IF ~active
    THEN [leds |-> buf, active |-> FALSE, ret |-> FALSE]
    ELSE IF duration = 0
    THEN [leds |-> buf, active |-> TRUE, ret |-> TRUE]
    ELSE IF TransitionComplete(t - start, duration)
    THEN [leds |-> buf, active |-> FALSE, ret |-> FALSE]
    ELSE [leds |-> [i \in DOMAIN buf |->
                       blend(prev[i], buf[i], ProgressAmount(t - start, duration))],
          active |-> TRUE, ret |-> TRUE]

\* An updateTransitions() that reports a complete transition but leaves the
\* flag set.
TransitionTickKeepsFlag(buf, prev, active, start, duration, t) ==
    IF ~active
    THEN [leds |-> buf, active |-> FALSE, ret |-> FALSE]
    ELSE IF TransitionComplete(t - start, duration)
    THEN [leds |-> buf, active |-> TRUE, ret |-> FALSE]
    ELSE [leds |-> [i \in DOMAIN buf |->
                       blend(prev[i], buf[i], ProgressAmount(t - start, duration))],
          active |-> TRUE, ret |-> TRUE]

\* updateTransitions() on a frame buf at time t: the frame, the flag and the
\* value returned.
TransitionTick(buf, prev, active, start, duration, t) ==
    IF ~active
    THEN [leds |-> buf, active |-> FALSE, ret |-> FALSE]
    ELSE IF TransitionComplete(t - start, duration)
    THEN [leds |-> buf, active |-> FALSE, ret |-> FALSE]
    ELSE [leds |-> [i \in DOMAIN buf |->
                       blend(prev[i], buf[i], ProgressAmount(t - start, duration))],
          active |-> TRUE, ret |-> TRUE]

\* updateTransitions()
UpdateTransitions ==
    /\ revision = "current"
    /\ LET r == TransitionTick(leds, prevLeds, transitionActive,
                               transitionStartTime, transitionDuration, now)
       IN  /\ leds' = r.leds
           /\ transitionActive' = r.active
           /\ lastCall' = [op |-> "updateTransitions", ret |-> r.ret]
    /\ UNCHANGED <<revision, mapperVars, rendered, tbVars, glowPoints, spawn, sensorVars, sample, prevLeds,
                   transitionStartTime, transitionDuration, now>>

\* Inputs of gentleGlow in the transition specification: one point at a time,
\* three intensities.
TransArgs == [hue : {160}, brightness : {24}, speed : {255}, spread : {1}]
TransDraws == [roll : {0, 255}, pos : {1}, hueVar : {5}, spreadVar : {1},
               intensityVar : {0}]

\* gentleGlow() as the renderer of the frame a transition leads to.
TransGlow ==
    /\ revision = "current"
    /\ \/ GlowNoTrigger(TransArgs, TransDraws)
       \/ ActiveCountOf(glowPoints) = 0 /\ GlowTrigger(TransArgs, TransDraws)
    /\ lastCall' = [op |-> "gentleGlow", ret |-> FALSE]
    /\ rendered' = leds'
    /\ UNCHANGED <<revision, mapperVars, tbVars, sensorVars, sample, prevLeds, transitionActive,
                   transitionStartTime, transitionDuration, now>>

\* millis() moves on between two calls.
Tick ==
    /\ revision = "current"
    /\ \E dt \in ClockSteps :
           /\ now + dt <= MaxNow
           /\ now' = now + dt
    /\ lastCall' = [op |-> "tick", ret |-> FALSE]
    /\ UNCHANGED <<revision, mapperVars, rendered, tbVars, glowVars, sensorVars, sample, prevLeds, transitionActive,
                   transitionStartTime, transitionDuration>>

\* The constructor: no transition, previous frame black.
TransInit ==
    /\ prevLeds = Black
    /\ transitionActive = FALSE
    /\ transitionStartTime = 0
    /\ transitionDuration = 0
    /\ now = 0
    /\ lastCall = [op |-> "constructor", ret |-> FALSE]
    /\ rendered = Black

----------------------------------------------------------------------------
(* Target-buffer revision of the library: glow engine                      *)

\* FastLED qsub8: saturating 8-bit subtraction.
qsub8(a, b) == Max(a - b, 0)

\* A slot as the constructor leaves it.
TbEmptyPoint ==
    [position |-> 0, intensity |-> 0, maxIntensity |-> 0, state |-> 0,
     speed |-> 0, hue |-> 0]

\* A slot is free when state == 0 && intensity == 0.
TbOccupied(p) == ~(p.state = 0 /\ p.intensity = 0)

TbOccupiedCount(pool) == Cardinality({i \in DOMAIN pool : TbOccupied(pool[i])})

TbFreeSlots(pool) == {i \in Slots : ~TbOccupied(pool[i])}

TbFirstFree(pool) ==
    CHOOSE i \in TbFreeSlots(pool) : \A j \in TbFreeSlots(pool) : i <= j

\* The point addGlowPoint(baseHue, brightness, speed) writes, d the draws.
TbNewPoint(baseHue, brightness, speed, d) ==
    [position |-> d.pos,
     intensity |-> 1,
     maxIntensity |-> U8(ArduinoMap(brightness, 0, 255, 100, 255)),
     state |-> Growing,
     speed |-> U8(ArduinoMap(speed, 1, 255, 2, 15)),
     hue |-> U8(baseHue + d.hueVar - 15)]

\* addGlowPoint(baseHue, brightness, speed): the pool afterwards, the value
\* returned and the slot written.
tbAddGlowPoint(pool, baseHue, brightness, speed, d) ==
    IF TbFreeSlots(pool) = {}
    THEN [pool |-> pool, ret |-> FALSE, slot |-> NoCall]
    ELSE LET i == TbFirstFree(pool) IN
         [pool |-> [pool EXCEPT ![i] = TbNewPoint(baseHue, brightness, speed, d)],
          ret |-> TRUE, slot |-> i]

\* A lifecycle that clears a faded point without reporting it (it returns
\* true where the code returns false).
TbAdvanceForgetsReturn(p) ==
    IF ~TbOccupied(p) THEN [point |-> p, alive |-> FALSE]
    ELSE IF p.state = Growing
    THEN LET raised == qadd8(p.intensity, p.speed) IN
         IF raised >= p.maxIntensity
         THEN [point |-> [p EXCEPT !.intensity = p.maxIntensity, !.state = Stable],
               alive |-> TRUE]
         ELSE [point |-> [p EXCEPT !.intensity = raised], alive |-> TRUE]
    ELSE IF p.state = Stable
    THEN [point |-> [p EXCEPT !.state = Fading], alive |-> TRUE]
    ELSE IF p.state = Fading
    THEN LET lowered == qsub8(p.intensity, p.speed \div 2) IN
         IF lowered <= 1
         THEN [point |-> [p EXCEPT !.intensity = 0, !.state = 0], alive |-> TRUE]
         ELSE [point |-> [p EXCEPT !.intensity = lowered], alive |-> TRUE]
    ELSE [point |-> p, alive |-> TRUE]

\* The lifecycle part of updateGlowPoint(pointIndex, spread): the point
\* afterwards and whether the function goes on to draw it (returns true).
TbAdvance(p) ==
    IF ~TbOccupied(p) THEN [point |-> p, alive |-> FALSE]
    ELSE IF p.state = Growing
    THEN LET raised == qadd8(p.intensity, p.speed) IN
         IF raised >= p.maxIntensity
         THEN [point |-> [p EXCEPT !.intensity = p.maxIntensity, !.state = Stable],
               alive |-> TRUE]
         ELSE [point |-> [p EXCEPT !.intensity = raised], alive |-> TRUE]
    ELSE IF p.state = Stable
    THEN [point |-> [p EXCEPT !.state = Fading], alive |-> TRUE]
    ELSE IF p.state = Fading
    THEN LET lowered == qsub8(p.intensity, p.speed \div 2) IN
         IF lowered <= 1
         THEN [point |-> [p EXCEPT !.intensity = 0, !.state = 0], alive |-> FALSE]
         ELSE [point |-> [p EXCEPT !.intensity = lowered], alive |-> TRUE]
    ELSE [point |-> p, alive |-> TRUE]

\* uint8_t maxSpread = map(spread, 1, 10, 2, 8)
TbMaxSpread(spreadArg) == U8(ArduinoMap(spreadArg, 1, 10, 2, 8))

\* falloff of offset i, zero when the loop skips it (falloff < 5).
TbFalloff(intensity, maxSpread, i) ==
    LET f == U8((intensity * (maxSpread - i) * (maxSpread - i))
                    \div (maxSpread * maxSpread))
    IN  IF f < 5 THEN 0 ELSE f

\* What the offsets 1 .. maxSpread add to pixel at, left and right.
TbAdded(p, maxSpread, at) ==
    LET hits(i) ==
            (IF CRem(p.position - i + NumLeds, NumLeds) = at THEN 1 ELSE 0)
          + (IF CRem(p.position + i, NumLeds) = at THEN 1 ELSE 0)
        sum[i \in 0 .. maxSpread] ==
            IF i = 0 THEN 0
            ELSE sum[i - 1] + hits(i) * TbFalloff(p.intensity, maxSpread, i)
    IN  sum[maxSpread]

\* The drawing part of updateGlowPoint: the centre pixel is set, then the
\* offsets are added with saturation.
TbDraw(buf, p, spreadArg) ==
    [at \in DOMAIN buf |->
        qadd8(IF at = p.position THEN p.intensity ELSE buf[at],
              TbAdded(p, TbMaxSpread(spreadArg), at))]

\* fadeToBlackBy(_leds, _numLeds, 20): every channel scaled by 235/256 with
\* FastLED's fixed scale8, (v * (1 + 235)) >> 8.
FadeToBlackBy20(buf) == [at \in DOMAIN buf |-> (buf[at] * 236) \div 256]

\* The spawn test of gentleGlow: random8() < map(speed, 1, 255, 5, 40).
TbSpawnRoll(roll, speed) == roll < ArduinoMap(speed, 1, 255, 5, 40)

RECURSIVE TbUpdateLoop(_, _, _)
\* The update loop of gentleGlow over the slots i .. MAX_GLOW_POINTS-1; st
\* holds the pool, the frame buffer and _activeGlowPoints.
TbUpdateLoop(st, spreadArg, i) ==
    IF i >= MAX_GLOW_POINTS THEN st
    ELSE IF ~TbOccupied(st.pool[i]) THEN TbUpdateLoop(st, spreadArg, i + 1)
    ELSE LET r == TbAdvance(st.pool[i]) IN
         IF r.alive
         THEN TbUpdateLoop([st EXCEPT !.pool[i] = r.point,
                                      !.buf = TbDraw(st.buf, r.point, spreadArg)],
                           spreadArg, i + 1)
         ELSE TbUpdateLoop([st EXCEPT !.pool[i] = [r.point EXCEPT !.state = 0,
                                                                  !.intensity = 0],
                                      !.active = Max(0, st.active - 1)],
                           spreadArg, i + 1)

\* The least time between two pool updates of gentleGlow, in ms.
GlowUpdatePeriod == 20

\* gentleGlow(baseHue, brightness, speed, spread) of the target-buffer
\* revision as one step; d holds the random draws.
TbGentleGlowStep(baseHue, brightness, speed, spreadArg, d) ==
    LET faded == FadeToBlackBy20(tbLeds)
        due == now - tbLastGlowUpdate >= GlowUpdatePeriod
        trigger == TbSpawnRoll(d.roll, speed)
        a == IF due /\ trigger /\ tbActive < MAX_GLOW_POINTS
             THEN tbAddGlowPoint(tbPoints, baseHue, brightness, speed, d)
             ELSE [pool |-> tbPoints, ret |-> FALSE, slot |-> NoCall]
        counted == IF a.ret THEN U8(tbActive + 1) ELSE tbActive
        upd == TbUpdateLoop([pool |-> a.pool, buf |-> faded, active |-> counted],
                            spreadArg, 0)
    IN  IF due
        THEN /\ tbLastGlowUpdate' = now
             /\ tbPoints' = upd.pool
             /\ tbActive' = upd.active
             /\ tbLeds' = upd.buf
             /\ tbCall' = [op |-> "gentleGlow", ret |-> FALSE, due |-> TRUE,
                           trigger |-> trigger, slot |-> a.slot,
                           born |-> IF a.ret THEN a.pool[a.slot] ELSE TbEmptyPoint]
        ELSE /\ tbLeds' = faded
             /\ tbCall' = [op |-> "gentleGlow", ret |-> FALSE, due |-> FALSE,
                           trigger |-> FALSE, slot |-> NoCall, born |-> TbEmptyPoint]
             /\ UNCHANGED <<tbPoints, tbActive, tbLastGlowUpdate>>

\* The record of a call that is not a pool update.
TbCallOf(op, ret) ==
    [op |-> op, ret |-> ret, due |-> FALSE, trigger |-> FALSE, slot |-> NoCall,
     born |-> TbEmptyPoint]

\* Inputs of gentleGlow in the target-buffer pool specification: the
\* shortest life (speed 255), one size of point.
TbPoolArgs == [hue : {160}, brightness : {0}, speed : {255}, spread : {1}]

TbPoolDraws == [roll : {0, 255}, pos : {1}, hueVar : {15}]

\* Inputs of the target-buffer single-point specification: the lowest and
\* the highest target (100 and 255) at the largest step (15), spread 3, hue
\* jitter at both ends.
TbWideArgs == [hue : {160}, brightness : {0, 255}, speed : {255}, spread : {3}]
TbWideDraws == [roll : {0, 255}, pos : {1}, hueVar : {0, 30}]

\* A gentleGlow call of the main loop, one per pass.  The offsets the
\* drawing loop reaches must lie within one strip length of the centre, as
\* on the strips the firmware drives.
TbGlowCall(Args, Draws, onlyWhenEmpty) ==
    /\ tbCall.op # "gentleGlow"
    /\ \E a \in Args : \E d \in Draws :
           /\ TbMaxSpread(a.spread) <= NumLeds
           /\ onlyWhenEmpty =>
                  (TbOccupiedCount(tbPoints) = 0 \/ ~TbSpawnRoll(d.roll, a.speed))
           /\ TbGentleGlowStep(a.hue, a.brightness, a.speed, a.spread, d)
    /\ UNCHANGED <<revision, mapperVars, rendered, glowVars, sensorVars, transVars, sample, tbTargetLeds,
                   tbPreviousLeds, tbTransitioning, tbStartTime, tbDuration>>

\* The pool specification: every pass may spawn.
TbPoolGlow == revision = "targetBuffer" /\ TbGlowCall(TbPoolArgs, TbPoolDraws, FALSE)

\* The single-point specification: a spawn roll succeeds only on an empty pool.
TbWideGlow == revision = "targetBuffer" /\ TbGlowCall(TbWideArgs, TbWideDraws, TRUE)

----------------------------------------------------------------------------
(* Target-buffer revision of the library: transitions                      *)

\* Channel values the solid fills use.
FillColors == {0, 200}

\* solid(color): fill_solid on _leds.
TbSolid ==
    /\ revision = "targetBuffer"
    /\ \E c \in FillColors : tbLeds' = [at \in DOMAIN tbLeds |-> c]
    /\ tbCall' = TbCallOf("solid", FALSE)
    /\ UNCHANGED <<revision, mapperVars, rendered, glowVars, sensorVars, transVars, sample, tbPoints, tbActive,
                   tbLastGlowUpdate, tbTargetLeds, tbPreviousLeds,
                   tbTransitioning, tbStartTime, tbDuration>>

\* solidToTarget(color): fill of _targetLeds.
TbSolidToTarget ==
    /\ revision = "targetBuffer"
    /\ \E c \in FillColors : tbTargetLeds' = [at \in DOMAIN tbTargetLeds |-> c]
    /\ tbCall' = TbCallOf("solidToTarget", FALSE)
    /\ UNCHANGED <<revision, mapperVars, rendered, glowVars, sensorVars, transVars, sample, tbPoints, tbActive,
                   tbLastGlowUpdate, tbLeds, tbPreviousLeds, tbTransitioning,
                   tbStartTime, tbDuration>>

\* startTransition(duration), which begins with captureCurrentState().
TbStartTransition ==
    /\ revision = "targetBuffer"
    /\ \E d \in Durations :
           /\ tbPreviousLeds' = tbLeds
           /\ tbStartTime' = now
           /\ tbDuration' = d
           /\ tbTransitioning' = TRUE
    /\ tbCall' = TbCallOf("startTransition", FALSE)
    /\ UNCHANGED <<revision, mapperVars, rendered, glowVars, sensorVars, transVars, sample, tbPoints, tbActive,
                   tbLastGlowUpdate, tbLeds, tbTargetLeds>>

\* elapsed >= _transitionDuration
TbTransitionComplete(elapsed, duration) == elapsed >= duration

\* uint8_t progress = map(elapsed, 0, _transitionDuration, 0, 255)
TbProgress(elapsed, duration) == U8(ArduinoMap(elapsed, 0, duration, 0, 255))

\* updateTransitions()
TbUpdateTransitions ==
    /\ revision = "targetBuffer"
    /\ IF ~tbTransitioning
       THEN /\ tbCall' = TbCallOf("updateTransitions", FALSE)
            /\ UNCHANGED <<tbLeds, tbTransitioning>>
       ELSE IF TbTransitionComplete(now - tbStartTime, tbDuration)
       THEN /\ tbLeds' = tbTargetLeds
            /\ tbTransitioning' = FALSE
            /\ tbCall' = TbCallOf("updateTransitions", FALSE)
       ELSE /\ tbLeds' = [at \in DOMAIN tbLeds |->
                             blend(tbPreviousLeds[at], tbTargetLeds[at],
                                   TbProgress(now - tbStartTime, tbDuration))]
            /\ tbCall' = TbCallOf("updateTransitions", TRUE)
            /\ UNCHANGED tbTransitioning
    /\ UNCHANGED <<revision, mapperVars, rendered, glowVars, sensorVars, transVars, sample, tbPoints, tbActive,
                   tbLastGlowUpdate, tbTargetLeds, tbPreviousLeds, tbStartTime,
                   tbDuration>>

\* The time a pass of the main loop takes, in ms.
PassTime == 20

\* The latest times the clock reaches in the pool and in the single-point
\* specification.
MaxPoolNow == 160
MaxGlowNow == 1200

\* millis() moves on by one pass after a gentleGlow call.
TbPassTick(maxNow) ==
    /\ tbCall.op = "gentleGlow"
    /\ now + PassTime <= maxNow
    /\ now' = now + PassTime
    /\ tbCall' = TbCallOf("tick", FALSE)
    /\ UNCHANGED <<revision, mapperVars, rendered, glowVars, sensorVars, sample, prevLeds, transitionActive,
                   transitionStartTime, transitionDuration, lastCall, tbPoints,
                   tbActive, tbLastGlowUpdate, tbLeds, tbTargetLeds,
                   tbPreviousLeds, tbTransitioning, tbStartTime, tbDuration>>

TbPoolTick == revision = "targetBuffer" /\ TbPassTick(MaxPoolNow)

TbGlowTick == revision = "targetBuffer" /\ TbPassTick(MaxGlowNow)

\* millis() moves on between two calls of the transition engine.
TbTick ==
    /\ revision = "targetBuffer"
    /\ \E dt \in ClockSteps :
           /\ now + dt <= MaxNow
           /\ now' = now + dt
    /\ tbCall' = TbCallOf("tick", FALSE)
    /\ UNCHANGED <<revision, mapperVars, rendered, glowVars, sensorVars, sample, prevLeds, transitionActive,
                   transitionStartTime, transitionDuration, lastCall, tbPoints,
                   tbActive, tbLastGlowUpdate, tbLeds, tbTargetLeds,
                   tbPreviousLeds, tbTransitioning, tbStartTime, tbDuration>>

\* The constructor of the target-buffer revision.
TbInit ==
    /\ tbPoints = [i \in Slots |-> TbEmptyPoint]
    /\ tbActive = 0
    /\ tbLastGlowUpdate = 0
    /\ tbLeds = Black
    /\ tbTargetLeds = Black
    /\ tbPreviousLeds = Black
    /\ tbTransitioning = FALSE
    /\ tbStartTime = 0
    /\ tbDuration = 0
    /\ tbCall = TbCallOf("constructor", FALSE)

----------------------------------------------------------------------------
(* The parameter mapper of the main program: updateLEDPattern               *)

\* Constants of the main program.
INTENSITY_LOW == 64
INTENSITY_MEDIUM == 128
BRIGHTNESS_MIN == 80
BRIGHTNESS_MAX == 220
SPEED_MIN == 20
SPEED_MAX == 100
HUE_COOL == 160
HUE_NEUTRAL == 96
HUE_WARM == 0
SPREAD_MIN == 3
SPREAD_MAX == 8
TRANSITION_DURATION == 300
MIN_UPDATE_INTERVAL == 150
MIN_TRANSITION_REST == 350

\* The same two constants in the first revision of the main program.
V1_TRANSITION_DURATION == 1000
V1_MIN_UPDATE_INTERVAL == 250

\* The two revisions of updateLEDPattern: the first one, which rate-limits
\* by lastPatternChange, and the latest, which returns early.
MainRevisions == {"first", "latest"}

\* The smoothed intensities are floats; they are kept as integers counting
\* steps of 1 / SmoothUnit, each operation rounding to the nearest step.
SmoothUnit == 16

\* SMOOTHING_FACTOR in tenths: 0.1 in the first revision, 0.2 in the latest.
SmoothingTenths(main) == IF main = "first" THEN 1 ELSE 2

\* n / d rounded to the nearest integer, ties to even.
RoundDiv(n, d) ==
    LET q == n \div d
        r == n - q * d
    IN  IF 2 * r < d THEN q
        ELSE IF 2 * r > d THEN q + 1
        ELSE IF q % 2 = 0 THEN q ELSE q + 1

\* A smoothing with factor 1: the result is the new intensity.
SmoothJumps(old, intensity, main) == intensity * SmoothUnit

\* smoothed = SMOOTHING_FACTOR * intensity + (1.0 - SMOOTHING_FACTOR) * smoothed
Smooth(old, intensity, main) ==
    old + RoundDiv((intensity * SmoothUnit - old) * SmoothingTenths(main), 10)

\* (uint8_t)smoothed
SmoothedInt(smoothed) == smoothed \div SmoothUnit

\* A hue choice that looks at the presence channel before the motion channel.
CandidateHuePresenceFirst(presenceArg, motionArg, sP, sM) ==
    IF presenceArg /\ sP > INTENSITY_LOW
    THEN U8(ArduinoMap(sP, INTENSITY_LOW, INTENSITY_MAX, HUE_COOL, HUE_NEUTRAL))
    ELSE IF motionArg /\ sM > INTENSITY_MEDIUM
    THEN U8(ArduinoMap(sM, INTENSITY_MEDIUM, INTENSITY_MAX, HUE_NEUTRAL, HUE_WARM))
    ELSE HUE_COOL

\* newHue: motion above the medium cut first, then presence above the low
\* cut, else the cool hue.
CandidateHue(presenceArg, motionArg, sP, sM) ==
    IF motionArg /\ sM > INTENSITY_MEDIUM
    THEN U8(ArduinoMap(sM, INTENSITY_MEDIUM, INTENSITY_MAX, HUE_NEUTRAL, HUE_WARM))
    ELSE IF presenceArg /\ sP > INTENSITY_LOW
    THEN U8(ArduinoMap(sP, INTENSITY_LOW, INTENSITY_MAX, HUE_COOL, HUE_NEUTRAL))
    ELSE HUE_COOL

\* newBrightness: the mapped presence, replaced by the idle floor when
\* neither channel is detected.
CandidateBrightness(idle, sP) ==
    IF idle THEN BRIGHTNESS_MIN + 20
    ELSE U8(ArduinoMap(sP, 0, INTENSITY_MAX, BRIGHTNESS_MIN, BRIGHTNESS_MAX))

\* A speed that is the mapped motion even when neither channel is detected.
CandidateSpeedMapped(idle, sM) ==
    U8(ArduinoMap(sM, 0, INTENSITY_MAX, SPEED_MIN, SPEED_MAX))

\* newSpeed: the mapped motion, replaced by the idle floor when neither
\* channel is detected.
CandidateSpeed(idle, sM) ==
    IF idle THEN SPEED_MIN + 5
    ELSE U8(ArduinoMap(sM, 0, INTENSITY_MAX, SPEED_MIN, SPEED_MAX))

\* A spread mapped from the sum of the two intensities.
CandidateSpreadSummed(sP, sM) ==
    U8(ArduinoMap(sP + sM, 0, INTENSITY_MAX, SPREAD_MIN, SPREAD_MAX))

\* newSpread: mapped from the larger of the two intensities.
CandidateSpread(sP, sM) ==
    U8(ArduinoMap(Max(sP, sM), 0, INTENSITY_MAX, SPREAD_MIN, SPREAD_MAX))

\* The candidate parameters computed from the detection flags and the
\* truncated smoothed intensities.
Candidate(presenceArg, motionArg, sP, sM) ==
    LET idle == ~presenceArg /\ ~motionArg
    IN  [hue |-> CandidateHue(presenceArg, motionArg, sP, sM),
         brightness |-> CandidateBrightness(idle, sP),
         speed |-> CandidateSpeed(idle, sM),
         spread |-> CandidateSpread(sP, sM)]

\* The last-applied snapshot as a record.
LastApplied ==
    [hue |-> lastHue, brightness |-> lastBrightness, speed |-> lastSpeed,
     spread |-> lastSpread]

\* A comparison that calls every difference between the candidate and the
\* snapshot a change.
ParametersChangedAny(c, last) == c # last

\* parametersChanged: some difference exceeds its threshold.
ParametersChanged(c, last) ==
    \/ Abs(c.hue - last.hue) > 5
    \/ Abs(c.brightness - last.brightness) > 8
    \/ Abs(c.speed - last.speed) > 5
    \/ Abs(c.spread - last.spread) > 1

\* A pass without emission that calls gentleGlow with the parameters applied
\* last before it polls the transition.
LibraryTickWithGlow ==
    LET g == GentleGlowResult(glowPoints, lastHue, lastBrightness, lastSpeed,
                              lastSpread, RollsFor({}),
                              [roll |-> 0, pos |-> 1, hueVar |-> 5,
                               spreadVar |-> 1, intensityVar |-> 0])
        r == TransitionTick(g.buf, prevLeds, transitionActive,
                            transitionStartTime, transitionDuration, now)
    IN  /\ glowPoints' = g.pool
        /\ spawn' = g.info
        /\ rendered' = g.buf
        /\ leds' = r.leds
        /\ transitionActive' = r.active
        /\ lastCall' = [op |-> "updateTransitions", ret |-> r.ret]
        /\ UNCHANGED <<prevLeds, transitionStartTime, transitionDuration>>

\* The library state an updateTransitions call at the present time leaves.
LibraryTick ==
    LET r == TransitionTick(leds, prevLeds, transitionActive,
                            transitionStartTime, transitionDuration, now)
    IN  /\ leds' = r.leds
        /\ transitionActive' = r.active
        /\ lastCall' = [op |-> "updateTransitions", ret |-> r.ret]
        /\ UNCHANGED <<prevLeds, glowPoints, spawn, rendered,
                       transitionStartTime, transitionDuration>>

\* The random draws of gentleGlow in the main program: every spawn draw
\* succeeds and no stable point starts to fade.
MainDraws == [roll : {255}, pos : {1}, hueVar : {5}, spreadVar : {1},
              intensityVar : {0}]
MainFading(pool) == {{}}

\* The calls of an emission: captureCurrentState(), gentleGlow() with the
\* candidate parameters, startTransition(duration) and, in the first
\* revision, the updateTransitions() that follows in the same call.  The
\* latest revision gets here only after updateTransitions() has returned
\* false, that is with no transition under way.
EmitCalls(c, duration, tickAfter) ==
    \E fading \in MainFading(glowPoints) :
    \E d \in MainDraws :
        LET g == GentleGlowResult(glowPoints, c.hue, c.brightness, c.speed,
                                  c.spread, RollsFor(fading), d)
            r == TransitionTick(g.buf, leds, TRUE, now, duration, now)
        IN  /\ prevLeds' = leds
            /\ glowPoints' = g.pool
            /\ spawn' = g.info
            /\ rendered' = g.buf
            /\ transitionStartTime' = now
            /\ transitionDuration' = duration
            /\ leds' = IF tickAfter THEN r.leds ELSE g.buf
            /\ transitionActive' = IF tickAfter THEN r.active ELSE TRUE
            /\ lastCall' =
                   IF tickAfter THEN [op |-> "updateTransitions", ret |-> r.ret]
                   ELSE [op |-> "startTransition", ret |-> FALSE,
                         duration |-> duration, restart |-> FALSE]

\* The snapshot after an emission of the candidate c.
SnapshotBecomes(c) ==
    /\ lastHue' = c.hue
    /\ lastBrightness' = c.brightness
    /\ lastSpeed' = c.speed
    /\ lastSpread' = c.spread

\* An interval test of the first revision that lets every change through.
V1IntervalElapsedAlways(since) == since >= 0

\* timeSinceLastChange > MIN_UPDATE_INTERVAL
V1IntervalElapsed(since) == since > V1_MIN_UPDATE_INTERVAL

\* updateLEDPattern(presence, motion, presenceIntensity, motionIntensity) of
\* the first revision.
FirstUpdateLEDPattern(presenceArg, motionArg, pI, mI) ==
    LET sP == Smooth(smoothedPresenceIntensity, pI, "first")
        sM == Smooth(smoothedMotionIntensity, mI, "first")
        c == Candidate(presenceArg, motionArg, SmoothedInt(sP), SmoothedInt(sM))
        changed == ParametersChanged(c, LastApplied)
    IN  /\ smoothedPresenceIntensity' = sP
        /\ smoothedMotionIntensity' = sM
        /\ IF changed /\ V1IntervalElapsed(now - lastPatternChange)
           THEN /\ lastPatternChange' = now
                /\ EmitCalls(c, V1_TRANSITION_DURATION, TRUE)
                /\ SnapshotBecomes(c)
                /\ patternCall' = [outcome |-> "emitted", shown |-> TRUE]
           ELSE /\ LibraryTick
                /\ patternCall' = [outcome |-> IF changed THEN "interval"
                                               ELSE "within",
                                   shown |-> TRUE]
                /\ UNCHANGED <<lastHue, lastBrightness, lastSpeed, lastSpread,
                               lastPatternChange>>
        /\ UNCHANGED <<lastUpdate, lastTransitionStart, updTransitionActive>>

\* Neither a transition in progress nor less than the rest time since the
\* last transition start.
RestOver(active, since) == ~active /\ since >= MIN_TRANSITION_REST

\* updateLEDPattern(presence, motion, presenceIntensity, motionIntensity) of
\* the latest revision.
LatestUpdateLEDPattern(presenceArg, motionArg, pI, mI) ==
    LET sP == Smooth(smoothedPresenceIntensity, pI, "latest")
        sM == Smooth(smoothedMotionIntensity, mI, "latest")
        c == Candidate(presenceArg, motionArg, SmoothedInt(sP), SmoothedInt(sM))
        isInTransition ==
            TransitionTick(leds, prevLeds, transitionActive, transitionStartTime,
                           transitionDuration, now).ret
    IN  /\ smoothedPresenceIntensity' = sP
        /\ smoothedMotionIntensity' = sM
        /\ IF now - lastUpdate < MIN_UPDATE_INTERVAL
           THEN /\ patternCall' = [outcome |-> "interval", shown |-> FALSE]
                /\ UNCHANGED <<lastHue, lastBrightness, lastSpeed, lastSpread,
                               lastPatternChange, lastUpdate, lastTransitionStart,
                               updTransitionActive, leds, prevLeds, glowPoints,
                               spawn, rendered, transitionActive,
                               transitionStartTime, transitionDuration, lastCall>>
           ELSE IF ~RestOver(isInTransition, now - lastTransitionStart)
           THEN /\ LibraryTick
                /\ updTransitionActive' = isInTransition
                /\ patternCall' = [outcome |-> "rest", shown |-> FALSE]
                /\ UNCHANGED <<lastHue, lastBrightness, lastSpeed, lastSpread,
                               lastPatternChange, lastUpdate, lastTransitionStart>>
           ELSE IF ParametersChanged(c, LastApplied)
           THEN /\ lastUpdate' = now
                /\ lastPatternChange' = now
                /\ lastTransitionStart' = now
                /\ EmitCalls(c, TRANSITION_DURATION, FALSE)
                /\ updTransitionActive' = TRUE
                /\ SnapshotBecomes(c)
                /\ patternCall' = [outcome |-> "emitted", shown |-> TRUE]
           ELSE /\ LibraryTick
                /\ updTransitionActive' = FALSE
                /\ patternCall' = [outcome |-> "within", shown |-> TRUE]
                /\ UNCHANGED <<lastHue, lastBrightness, lastSpeed, lastSpread,
                               lastPatternChange, lastUpdate, lastTransitionStart>>

\* updateLEDPattern of the revision the build holds.
UpdateLEDPattern(presenceArg, motionArg, pI, mI) ==
    IF mainRevision = "first"
    THEN FirstUpdateLEDPattern(presenceArg, motionArg, pI, mI)
    ELSE LatestUpdateLEDPattern(presenceArg, motionArg, pI, mI)

\* The time setup() takes before the first pass of loop(): delay(2000) and
\* the delay(1000) after the success pattern.
SetupTime == 3000

\* The time a pass of loop() takes on the main program's clock: delay(15),
\* the two sensor reads over I2C, the serial prints and FastLED.show().
LoopTime == 100

\* The latest time the clock of the main program reaches, and the number of
\* times the sensor's readings change before they stay as they are.
MaxMainNow == 4800
MaxSwitches == 4

\* The longest idle time the model tells apart.
IdleCap == 1100

\* A quiet sensor and a sensor that reports a body at -200.
Quiet == [raw |-> 0, flag |-> FALSE]
Body == [raw |-> -200, flag |-> TRUE]

\* The readings offered on a pass of the main program, as (presence,
\* motion) pairs.
MainSamples == {[p |-> Quiet, m |-> Quiet], [p |-> Body, m |-> Quiet]}

\* One pass of loop(): both debounce blocks, updateLEDPattern on their
\* results, delay(15).
LoopPass ==
    /\ revision = "current"
    /\ now + LoopTime <= MaxMainNow
    /\ \E s \in MainSamples :
       \E vP \in PresenceOutcomes[s.p.raw] :
       \E vM \in MotionOutcomes[s.m.raw] :
           LET p == DebounceStep(presence, s.p.raw, s.p.flag, PRESENCE_MIN_VALUE, vP)
               m == DebounceStep(motion, s.m.raw, s.m.flag, MOTION_MIN_VALUE, vM)
           IN  /\ s = env.last \/ env.switches < MaxSwitches
               /\ env' = [last |-> s,
                          switches |-> IF s = env.last THEN env.switches
                                       ELSE env.switches + 1]
               /\ presence' = p
               /\ motion' = m
               /\ run' = [p |-> RunAfter(run.p,
                                         SampleQualifies(s.p.raw, s.p.flag,
                                                         PRESENCE_MIN_VALUE),
                                         presence),
                          m |-> RunAfter(run.m,
                                         SampleQualifies(s.m.raw, s.m.flag,
                                                         MOTION_MIN_VALUE),
                                         motion),
                          boot |-> BootAfter(run.boot, s.p.raw, s.p.flag)]
               /\ UpdateLEDPattern(p.detected, m.detected, p.intensity, m.intensity)
               /\ idleFor' = IF p.detected \/ m.detected THEN 0
                             ELSE Min(idleFor + LoopTime, IdleCap)
    /\ now' = now + LoopTime
    /\ UNCHANGED <<revision, mainRevision, tbVars, sample>>

\* The globals and statics of the main program as their initialisers leave
\* them.
MapperInit ==
    /\ smoothedPresenceIntensity = 0
    /\ smoothedMotionIntensity = 0
    /\ lastHue = HUE_COOL
    /\ lastBrightness = BRIGHTNESS_MIN
    /\ lastSpeed = SPEED_MIN
    /\ lastSpread = SPREAD_MIN
    /\ lastPatternChange = 0
    /\ lastUpdate = 0
    /\ lastTransitionStart = 0
    /\ updTransitionActive = FALSE
    /\ patternCall = [outcome |-> "boot", shown |-> FALSE]
    /\ idleFor = 0
    /\ env = [last |-> [p |-> Quiet, m |-> Quiet], switches |-> 0]

----------------------------------------------------------------------------
(* Specifications                                                          *)

Init ==
    /\ revision \in Revisions
    /\ GlowInit /\ SensorInit /\ TransInit /\ TbInit /\ sample = SampleIdle
    /\ mainRevision = "latest" /\ MapperInit

PoolNext == PoolGlowQuiet \/ PoolGlowSpawn \/ TbPoolGlow \/ TbPoolTick

\* The glow engine, of either revision, with five points alive together.
SpecPool == Init /\ [][PoolNext]_vars

GlowNext == WideGlowQuiet \/ WideGlowSpawn \/ TbWideGlow \/ TbGlowTick

\* The glow engine, of either revision, over the 8-bit extremes, one point
\* at a time.
SpecGlow == Init /\ [][GlowNext]_vars

\* The signal conditioner of the main program.
SensorBoot == Init /\ revision = "current"

SensorNext == PollSensors

SpecSensor == SensorBoot /\ [][SensorNext]_vars

TransNext ==
    \/ CaptureCurrentState \/ StartTransition \/ UpdateTransitions \/ TransGlow
    \/ Tick
    \/ TbSolid \/ TbSolidToTarget \/ TbStartTransition \/ TbUpdateTransitions
    \/ TbTick

\* The transition engine with its renderer and clock.
SpecTrans == Init /\ [][TransNext]_vars

SampleInit ==
    /\ revision = "current"
    /\ GlowInit /\ SensorInit /\ TransInit /\ TbInit
    /\ mainRevision = "latest" /\ MapperInit
    /\ sample \in [a : RawSamples, b : RawSamples,
                   scale : {PRESENCE_LOG_SCALE_FACTOR, MOTION_LOG_SCALE_FACTOR},
                   build : CastBuilds, ia : {0}, ib : {0}, done : {FALSE}]

\* The intensity computation on pairs of readings.
SpecIntensity == SampleInit /\ [][ComputeIntensity]_vars

\* The main program as loop() begins: the library linked from the library
\* directory, either revision of updateLEDPattern, setup() over.
MainInit ==
    /\ revision = "current"
    /\ mainRevision \in MainRevisions
    /\ GlowInit /\ SensorInit /\ TbInit /\ MapperInit /\ sample = SampleIdle
    /\ prevLeds = Black
    /\ transitionActive = FALSE
    /\ transitionStartTime = 0
    /\ transitionDuration = 0
    /\ lastCall = [op |-> "constructor", ret |-> FALSE]
    /\ rendered = Black
    /\ now = SetupTime

MainNext == LoopPass

\* The main program: sensor, mapper and library, pass after pass.
SpecMain == MainInit /\ [][MainNext]_vars

\* The intensities the smoothing specification feeds in.
SmoothInputs == {0, 1, 128, 254, 255}

\* The smoothing statement of updateLEDPattern on the presence channel:
\* smoothed = SMOOTHING_FACTOR * intensity + (1 - SMOOTHING_FACTOR) * smoothed.
SmoothStep ==
    /\ \E i \in SmoothInputs :
           /\ smoothedPresenceIntensity' =
                  Smooth(smoothedPresenceIntensity, i, mainRevision)
           /\ patternCall' = [outcome |-> "smoothed", shown |-> FALSE,
                              prior |-> smoothedPresenceIntensity,
                              intensity |-> i]
    /\ UNCHANGED <<revision, glowVars, sensorVars, transVars, rendered,
                   mainRevision, smoothedMotionIntensity, lastHue,
                   lastBrightness, lastSpeed, lastSpread, lastPatternChange,
                   lastUpdate, lastTransitionStart, updTransitionActive,
                   idleFor, env, sample, tbVars>>

\* The main program at its first pass with any whole smoothed presence
\* intensity.
SmoothInit ==
    /\ revision = "current"
    /\ mainRevision \in MainRevisions
    /\ GlowInit /\ SensorInit /\ TbInit /\ sample = SampleIdle
    /\ prevLeds = Black
    /\ transitionActive = FALSE
    /\ transitionStartTime = 0
    /\ transitionDuration = 0
    /\ lastCall = [op |-> "constructor", ret |-> FALSE]
    /\ rendered = Black
    /\ now = SetupTime
    /\ smoothedPresenceIntensity \in {i * SmoothUnit : i \in 0..255}
    /\ smoothedMotionIntensity = 0
    /\ lastHue = HUE_COOL
    /\ lastBrightness = BRIGHTNESS_MIN
    /\ lastSpeed = SPEED_MIN
    /\ lastSpread = SPREAD_MIN
    /\ lastPatternChange = 0
    /\ lastUpdate = 0
    /\ lastTransitionStart = 0
    /\ updTransitionActive = FALSE
    /\ patternCall = [outcome |-> "boot", shown |-> FALSE]
    /\ idleFor = 0
    /\ env = [last |-> [p |-> Quiet, m |-> Quiet], switches |-> 0]

SmoothNext == SmoothStep

\* The smoothing alone, from every whole prior value.
SpecSmooth == SmoothInit /\ [][SmoothNext]_vars

\* The arguments the repeated-call specification calls updateLEDPattern
\* with: nothing detected, and presence detected at intensity 138 (a body
\* at -200) or 255 (a saturated reading).
RepeatArgs == {[presence |-> FALSE, motion |-> FALSE, pI |-> 0, mI |-> 0],
               [presence |-> TRUE, motion |-> FALSE, pI |-> 138, mI |-> 0],
               [presence |-> TRUE, motion |-> FALSE, pI |-> 255, mI |-> 0]}

\* The number of calls made at one value of the clock, and the latest time
\* the clock of the repeated-call specification reaches.
MaxCallsPerTick == 2
MaxRepeatNow == 3300

\* One call of updateLEDPattern; the clock stands still.
CallPattern ==
    /\ revision = "current"
    /\ env.calls < MaxCallsPerTick
    /\ \E a \in RepeatArgs :
           /\ UpdateLEDPattern(a.presence, a.motion, a.pI, a.mI)
           /\ env' = [args |-> a, calls |-> env.calls + 1,
                      repeat |-> env.calls > 0 /\ env.args = a]
    /\ UNCHANGED <<revision, mainRevision, sensorVars, now, idleFor, sample,
                   tbVars>>

\* millis() moves on between two calls.
Elapse ==
    /\ now + LoopTime <= MaxRepeatNow
    /\ now' = now + LoopTime
    /\ env' = [env EXCEPT !.calls = 0, !.repeat = FALSE]
    /\ UNCHANGED <<revision, glowVars, sensorVars, prevLeds, transitionActive,
                   transitionStartTime, transitionDuration, lastCall,
                   rendered, mainRevision, smoothedPresenceIntensity,
                   smoothedMotionIntensity, lastHue, lastBrightness, lastSpeed,
                   lastSpread, lastPatternChange, lastUpdate,
                   lastTransitionStart, updTransitionActive, patternCall,
                   idleFor, sample, tbVars>>

\* The main program before its first call of updateLEDPattern.
RepeatInit ==
    /\ revision = "current"
    /\ mainRevision \in MainRevisions
    /\ GlowInit /\ SensorInit /\ TbInit /\ sample = SampleIdle
    /\ prevLeds = Black
    /\ transitionActive = FALSE
    /\ transitionStartTime = 0
    /\ transitionDuration = 0
    /\ lastCall = [op |-> "constructor", ret |-> FALSE]
    /\ rendered = Black
    /\ now = SetupTime
    /\ smoothedPresenceIntensity = 0
    /\ smoothedMotionIntensity = 0
    /\ lastHue = HUE_COOL
    /\ lastBrightness = BRIGHTNESS_MIN
    /\ lastSpeed = SPEED_MIN
    /\ lastSpread = SPREAD_MIN
    /\ lastPatternChange = 0
    /\ lastUpdate = 0
    /\ lastTransitionStart = 0
    /\ updTransitionActive = FALSE
    /\ patternCall = [outcome |-> "boot", shown |-> FALSE]
    /\ idleFor = 0
    /\ env = [args |-> [presence |-> FALSE, motion |-> FALSE, pI |-> 0, mI |-> 0],
              calls |-> 0, repeat |-> FALSE]

RepeatNext == CallPattern \/ Elapse

\* updateLEDPattern called any number of times per value of the clock.
SpecRepeat == RepeatInit /\ [][RepeatNext]_vars


----------------------------------------------------------------------------
(* Properties of the glow-point pool (SpecPool)                            *)

\* The speeds and Stable-branch rolls the pool specification draws from.
PoolSpeeds == {a.speed : a \in PoolArgs}
StableRolls == {FadeRoll, KeepRoll}

\* C1: after any sequence of gentleGlow calls the number of active glow
\* points is at most MAX_GLOW_POINTS; in the target-buffer revision that is
\* the number of occupied slots, and its counter _activeGlowPoints.
C1_ActiveAtMostCapacity ==
    /\ Cardinality({i \in DOMAIN glowPoints : glowPoints[i].active}) <= MAX_GLOW_POINTS
    /\ Cardinality({i \in DOMAIN tbPoints : TbOccupied(tbPoints[i])}) <= MAX_GLOW_POINTS
    /\ tbActive <= MAX_GLOW_POINTS

\* All five slots hold a live point.
C1_PoolFull ==
    Cardinality({i \in DOMAIN glowPoints : glowPoints[i].active}) = MAX_GLOW_POINTS

\* What a gentleGlow call whose spawn roll succeeded on a full pool leaves:
\* five active points, addGlowPoint not called (so no -1 either), and every
\* slot holding what updateGlowPoint made of the point it held before.
FullPoolSpawnIsNoOp ==
    (spawn'.trigger /\ spawn'.activeCount = MAX_GLOW_POINTS)
        => /\ DOMAIN glowPoints' = Slots
           /\ \A i \in Slots : glowPoints'[i].active
           /\ spawn'.ret = NoCall
           /\ \A i \in Slots :
                  \E sp \in PoolSpeeds : \E roll \in StableRolls :
                      glowPoints'[i] = updateGlowPoint(glowPoints[i], sp, roll)

\* The spawn phase keeps no memory of a refused spawn: a roll that succeeds
\* while a slot is free creates a point, growing from 0 in the lowest free slot.
SpawnWithFreeSlotCreates ==
    (spawn'.trigger /\ spawn'.activeCount < MAX_GLOW_POINTS)
        => /\ spawn'.ret \in Slots
           /\ glowPoints'[spawn'.ret].active
           /\ glowPoints'[spawn'.ret].currentIntensity = 0
           /\ glowPoints'[spawn'.ret].state = Growing
           /\ Cardinality({i \in Slots : glowPoints'[i].active}) = spawn'.activeCount + 1

\* C2: with all five slots active, a successful spawn roll creates no point:
\* the count stays five, no existing point is overwritten, nothing is
\* returned or raised, and a later call with a free slot spawns as usual.
C2_FullPoolSpawnSilent ==
    [][FullPoolSpawnIsNoOp /\ SpawnWithFreeSlotCreates]_vars

\* A call has just had its spawn roll succeed on a full pool.
C2_TriggerOnFullPool ==
    /\ spawn.trigger
    /\ spawn.activeCount = MAX_GLOW_POINTS
    /\ \A i \in Slots : glowPoints[i].active

----------------------------------------------------------------------------
(* Properties of a glow point's life (SpecGlow)                            *)

\* Every live point's intensity lies between 0 and its own target.
IntensityInRange ==
    /\ \A i \in Slots :
           glowPoints[i].active =>
               /\ glowPoints[i].currentIntensity >= 0
               /\ glowPoints[i].currentIntensity <= glowPoints[i].maxIntensity
    /\ \A i \in Slots :
           TbOccupied(tbPoints[i]) =>
               /\ tbPoints[i].intensity >= 0
               /\ tbPoints[i].intensity <= tbPoints[i].maxIntensity

\* Across the one updateGlowPoint call a gentleGlow step makes on a live
\* point, the intensity moves as the point's state allows.  A slot the same
\* step respawned holds another point and is not compared.
IntensityFollowsState ==
    /\ \A i \in Slots :
           (glowPoints[i].active /\ spawn'.ret # i) =>
               /\ glowPoints[i].state = Growing =>
                      glowPoints'[i].currentIntensity >= glowPoints[i].currentIntensity
               /\ glowPoints[i].state = Stable =>
                      glowPoints'[i].currentIntensity = glowPoints[i].currentIntensity
               /\ glowPoints[i].state = Fading =>
                      glowPoints'[i].currentIntensity <= glowPoints[i].currentIntensity
    /\ \A i \in Slots :
           TbOccupied(tbPoints[i]) =>
               /\ tbPoints[i].state = Growing =>
                      tbPoints'[i].intensity >= tbPoints[i].intensity
               /\ tbPoints[i].state = Stable =>
                      tbPoints'[i].intensity = tbPoints[i].intensity
               /\ tbPoints[i].state = Fading =>
                      tbPoints'[i].intensity <= tbPoints[i].intensity

\* C3: every active glow point's intensity is in [0, its own target], and
\* one updateGlowPoint call does not lower it while Growing, does not change
\* it while Stable and does not raise it while Fading.
C3_IntensityBoundedAndMonotone ==
    []IntensityInRange /\ [][IntensityFollowsState]_vars

\* A point that has grown, paused and is part of the way down.
C3_PointPartlyFaded ==
    \E i \in Slots :
        /\ glowPoints[i].active
        /\ glowPoints[i].state = Fading
        /\ glowPoints[i].currentIntensity > 0
        /\ glowPoints[i].currentIntensity < glowPoints[i].maxIntensity

\* The moves of the current revision's slots in one gentleGlow step: a live
\* point goes Growing -> Stable -> Fading -> inactive and never back; a
\* point is born Growing at intensity 0 in a slot that was free or had just
\* faded out; a free slot stays free otherwise.
LifecycleOrder ==
    \A i \in Slots :
        IF spawn'.ret = i
        THEN /\ glowPoints'[i].active
             /\ glowPoints'[i].state = Growing
             /\ glowPoints'[i].currentIntensity = 0
             /\ glowPoints[i].active => glowPoints[i].state = Fading
        ELSE IF glowPoints[i].active
        THEN /\ glowPoints[i].state = Growing =>
                    glowPoints'[i].active /\ glowPoints'[i].state \in {Growing, Stable}
             /\ glowPoints[i].state = Stable =>
                    glowPoints'[i].active /\ glowPoints'[i].state \in {Stable, Fading}
             /\ glowPoints[i].state = Fading => glowPoints'[i].state = Fading
             /\ glowPoints[i].state \in {Growing, Stable, Fading}
        ELSE ~glowPoints'[i].active

\* The same for the target-buffer revision, whose gentleGlow updates a point
\* in the call that creates it; born is the intensity a new point must
\* start at.
TbLifecycleOrder(born) ==
    \A i \in Slots :
        IF tbCall'.slot = i
        THEN /\ ~TbOccupied(tbPoints[i])
             /\ tbCall'.born.state = Growing
             /\ tbCall'.born.intensity = born
             /\ TbOccupied(tbPoints'[i])
             /\ tbPoints'[i].state \in {Growing, Stable}
        ELSE IF TbOccupied(tbPoints[i])
        THEN /\ tbPoints[i].state = Growing =>
                    TbOccupied(tbPoints'[i]) /\ tbPoints'[i].state \in {Growing, Stable}
             /\ tbPoints[i].state = Stable =>
                    TbOccupied(tbPoints'[i]) /\ tbPoints'[i].state \in {Stable, Fading}
             /\ tbPoints[i].state = Fading =>
                    ~TbOccupied(tbPoints'[i]) \/ tbPoints'[i].state = Fading
             /\ tbPoints[i].state \in {Growing, Stable, Fading}
        ELSE ~TbOccupied(tbPoints'[i])

----------------------------------------------------------------------------
(* Properties of the signal conditioner (SpecSensor)                       *)

\* C5: on each channel, whatever its state was before, after DEBOUNCE_COUNT
\* consecutive qualifying polls (|raw| above the floor and the hardware flag
\* set) the detected flag is true.
C5_DetectedAfterQualifyingRun ==
    /\ run.p.q >= DEBOUNCE_COUNT => presence.detected
    /\ run.m.q >= DEBOUNCE_COUNT => motion.detected

\* Both channels have just had their third qualifying poll in a row.
C5_BothRunsOfThree ==
    /\ run.p.q = DEBOUNCE_COUNT /\ presence.detected
    /\ run.m.q = DEBOUNCE_COUNT /\ motion.detected

\* C6: on each channel, whatever its state was before (a saturated detect
\* counter included), after DEBOUNCE_COUNT consecutive polls that do not
\* qualify, as every poll with |raw| below the floor does not whatever its
\* hardware flag, the detected flag is false.
C6_ClearedAfterNonQualifyingRun ==
    /\ run.p.nq >= DEBOUNCE_COUNT => ~presence.detected
    /\ run.m.nq >= DEBOUNCE_COUNT => ~motion.detected

\* The presence channel was detected with its counter at 255 and has since
\* had three non-qualifying polls.
C6_ClearedFromSaturation ==
    /\ run.p.sat
    /\ run.p.nq = DEBOUNCE_COUNT
    /\ ~presence.detected
    /\ presence.nonDetectionCount = DEBOUNCE_COUNT

\* A poll flips a channel's flag only at the end of a long enough run.
FlipsOnlyAfterRun(ch, r) ==
    /\ (~ch.detected /\ ch'.detected) => r'.q >= DEBOUNCE_COUNT
    /\ (ch.detected /\ ~ch'.detected) => r'.nq >= DEBOUNCE_COUNT

\* C7: a channel's detected flag turns true only on a poll that is at least
\* the DEBOUNCE_COUNT-th consecutive qualifying one, and false only on a
\* poll that is at least the DEBOUNCE_COUNT-th consecutive non-qualifying one.
C7_FlipsOnlyAfterRun ==
    [][FlipsOnlyAfterRun(presence, run.p) /\ FlipsOnlyAfterRun(motion, run.m)]_vars

\* The presence flag has turned true on the third pass since start-up.
C7_FlippedOnThirdPoll ==
    /\ run.boot = DEBOUNCE_COUNT
    /\ presence.detectionCount = DEBOUNCE_COUNT
    /\ presence.detected

\* C8: from start-up, three passes that read presence -200 with the
\* presence flag set leave presenceDetected true and presenceIntensity 138.
C8_ScenarioMinus200 ==
    run.boot = 3 => (presence.detected /\ presence.intensity = 138)

\* The third of three passes reading -200 has stored 138.
C8_ScenarioDone ==
    /\ run.boot = 3
    /\ presence.intensity = 138

----------------------------------------------------------------------------
(* Properties of the intensity computation (SpecIntensity)                 *)

\* C9: for a fixed scale factor the stored intensity does not decrease as
\* |raw| grows, over all qualifying int16_t readings: |a| <= |b| implies
\* intensity(a) <= intensity(b).
C9_IntensityMonotone ==
    (/\ sample.done
     /\ Abs(sample.a) > PRESENCE_MIN_VALUE
     /\ Abs(sample.b) > PRESENCE_MIN_VALUE
     /\ Abs(sample.a) <= Abs(sample.b))
        => sample.ia <= sample.ib

----------------------------------------------------------------------------
(* Properties of the transition flag (SpecTrans)                           *)

\* What one updateTransitions call of the current revision returns and does
\* to the flag; an idle call changes nothing.
UpdateFollowsMachine ==
    lastCall'.op = "updateTransitions" =>
        IF ~transitionActive
        THEN /\ ~lastCall'.ret
             /\ UNCHANGED <<leds, prevLeds, transitionActive, transitionStartTime,
                            transitionDuration>>
        ELSE IF now - transitionStartTime < transitionDuration
        THEN lastCall'.ret /\ transitionActive'
        ELSE ~lastCall'.ret /\ ~transitionActive'

\* The same for the target-buffer revision.
TbUpdateFollowsMachine ==
    tbCall'.op = "updateTransitions" =>
        IF ~tbTransitioning
        THEN /\ ~tbCall'.ret
             /\ UNCHANGED <<tbLeds, tbPreviousLeds, tbTargetLeds, tbTransitioning,
                            tbStartTime, tbDuration>>
        ELSE IF now - tbStartTime < tbDuration
        THEN tbCall'.ret /\ tbTransitioning'
        ELSE ~tbCall'.ret /\ ~tbTransitioning'

\* startTransition makes the flag Active, and nothing else does.
OnlyStartActivates ==
    /\ lastCall'.op = "startTransition" => transitionActive'
    /\ (~transitionActive /\ transitionActive') => lastCall'.op = "startTransition"
    /\ tbCall'.op = "startTransition" => tbTransitioning'
    /\ (~tbTransitioning /\ tbTransitioning') => tbCall'.op = "startTransition"

\* C10: the transition flag follows Idle --startTransition--> Active
\* --tick--> Active while elapsed < duration --tick--> Idle once elapsed >=
\* duration: updateTransitions returns false and changes nothing when Idle,
\* returns true and stays Active exactly when elapsed < duration, returns
\* false and becomes Idle exactly when elapsed >= duration, and only
\* startTransition makes the flag Active.
C10_TransitionFlagMachine ==
    [][UpdateFollowsMachine /\ TbUpdateFollowsMachine /\ OnlyStartActivates]_vars

\* An updateTransitions call found the transition under way and left it so.
C10_TickWhileActive ==
    /\ lastCall.op = "updateTransitions"
    /\ lastCall.ret
    /\ transitionActive
    /\ now - transitionStartTime < transitionDuration

----------------------------------------------------------------------------
(* Properties of the crossfade (SpecTrans)                                 *)

\* The frame a blending tick at the given elapsed time is meant to show.
LerpFrame(from, to, elapsed, duration) ==
    [at \in DOMAIN from |->
        blend(from[at], to[at], ProgressAmount(elapsed, duration))]

\* C11: on the updateTransitions call that finds elapsed >= duration the
\* transition becomes inactive and the frame buffer equals the frame the
\* pattern call rendered for this transition (the target buffer in the
\* target-buffer revision), with nothing of the previous frame left in it.
C11_CompletionShowsTarget ==
    [][/\ (lastCall'.op = "updateTransitions" /\ transitionActive
              /\ ~transitionActive') => leds' = rendered
       /\ (tbCall'.op = "updateTransitions" /\ tbTransitioning
              /\ ~tbTransitioning') => tbLeds' = tbTargetLeds]_vars

\* C12: an updateTransitions call made at the recorded start time of an
\* active transition of non-zero duration returns true and leaves the frame
\* buffer equal to the captured previous frame, pixel by pixel.
C12_StartShowsPrevious ==
    [][/\ (lastCall'.op = "updateTransitions" /\ transitionActive
              /\ now = transitionStartTime /\ transitionDuration > 0)
          => (lastCall'.ret /\ leds' = prevLeds /\ prevLeds' = prevLeds)
       /\ (tbCall'.op = "updateTransitions" /\ tbTransitioning
              /\ now = tbStartTime /\ tbDuration > 0)
          => (tbCall'.ret /\ tbLeds' = tbPreviousLeds
              /\ tbPreviousLeds' = tbPreviousLeds)]_vars

\* A tick at progress 0 has put the captured frame in place of a rendered
\* frame that differs from it.
C12_TickAtStart ==
    /\ lastCall.op = "updateTransitions"
    /\ lastCall.ret
    /\ now = transitionStartTime
    /\ leds = prevLeds
    /\ rendered # prevLeds

\* C13: every updateTransitions call with 0 < elapsed < duration leaves each
\* pixel equal to the blend of the captured previous frame and the rendered
\* target frame at progress elapsed / duration, on the first blending call of
\* a transition and on every later one.
C13_TickShowsLerp ==
    [][/\ (lastCall'.op = "updateTransitions" /\ lastCall'.ret
              /\ now > transitionStartTime)
          => leds' = LerpFrame(prevLeds, rendered, now - transitionStartTime,
                               transitionDuration)
       /\ (tbCall'.op = "updateTransitions" /\ tbCall'.ret /\ now > tbStartTime)
          => tbLeds' = [at \in DOMAIN tbLeds |->
                           blend(tbPreviousLeds[at], tbTargetLeds[at],
                                 TbProgress(now - tbStartTime, tbDuration))]]_vars

\* C14: startTransition called while a transition is active leaves the one
\* flag set with the start time and the duration of the new call and touches
\* neither frame, and the updateTransitions call after it decides and blends
\* by the time elapsed since that new start alone.
C14_RestartSupersedes ==
    [][/\ (lastCall'.op = "startTransition" /\ transitionActive)
          => /\ transitionActive'
             /\ transitionStartTime' = now
             /\ transitionDuration' = lastCall'.duration
             /\ UNCHANGED <<leds, prevLeds>>
       /\ (lastCall'.op = "updateTransitions" /\ transitionActive)
          => /\ lastCall'.ret = (now - transitionStartTime < transitionDuration)
             /\ lastCall'.ret =>
                    leds' = LerpFrame(prevLeds, leds, now - transitionStartTime,
                                      transitionDuration)]_vars

\* startTransition was called, later than at boot, while a transition was
\* under way.
C14_Restarted ==
    /\ lastCall.op = "startTransition"
    /\ lastCall.restart
    /\ transitionActive
    /\ transitionStartTime = now
    /\ now > 0

\* ---------------------------------------------------------------------
\* Properties of the parameter mapper (SpecMain)
\* ---------------------------------------------------------------------

\* C15: two consecutive emissions of updateLEDPattern (capture, gentleGlow,
\* startTransition, snapshot update) are at least MIN_UPDATE_INTERVAL
\* milliseconds of the clock apart: a pass that emits finds the clock that
\* far past the time of the emission before it.
C15_EmissionsApart ==
    [][patternCall'.outcome = "emitted" =>
           /\ lastPatternChange' = now
           /\ now - lastPatternChange >=
                  IF mainRevision = "first" THEN V1_MIN_UPDATE_INTERVAL
                  ELSE MIN_UPDATE_INTERVAL]_vars

\* A second emission of the latest revision has happened, on the first pass
\* after the rest that follows a transition.
C15_SecondEmission ==
    /\ mainRevision = "latest"
    /\ patternCall.outcome = "emitted"
    /\ lastPatternChange >= SetupTime + MIN_TRANSITION_REST
    /\ lastPatternChange < SetupTime + MIN_TRANSITION_REST + LoopTime

\* C16: on a pass whose candidate parameters are all within their
\* thresholds of the last-applied snapshot (hue 5, brightness 8, speed 5,
\* spread 1) nothing is emitted: no capture, no render, no transition
\* start, and the snapshot and its timestamp stay as they are.
C16_WithinThresholdsQuiet ==
    [][LET c == Candidate(presence'.detected, motion'.detected,
                          SmoothedInt(smoothedPresenceIntensity'),
                          SmoothedInt(smoothedMotionIntensity'))
       IN  (/\ Abs(c.hue - lastHue) <= 5
            /\ Abs(c.brightness - lastBrightness) <= 8
            /\ Abs(c.speed - lastSpeed) <= 5
            /\ Abs(c.spread - lastSpread) <= 1)
           => /\ patternCall'.outcome # "emitted"
              /\ UNCHANGED <<lastHue, lastBrightness, lastSpeed, lastSpread,
                             lastPatternChange, prevLeds, glowPoints,
                             transitionStartTime, transitionDuration>>]_vars

\* A pass outside every rate limit found the candidate different from the
\* snapshot but within the thresholds, and emitted nothing.
C16_WithinPass ==
    /\ patternCall.outcome = "within"
    /\ idleFor > 0
    /\ lastSpeed # SPEED_MIN + 5

\* C18: once both channels have been undetected for more than 1 s of
\* passes, the last-applied parameters are brightness 100, speed 25 and hue
\* 160, and no pass emits while the channels stay undetected.
C18_IdleSettles ==
    [][idleFor' > 1000 =>
           /\ lastBrightness' = BRIGHTNESS_MIN + 20
           /\ lastSpeed' = SPEED_MIN + 5
           /\ lastHue' = HUE_COOL
           /\ (idleFor > 1000 => patternCall'.outcome # "emitted")]_vars

\* C20: every call of updateLEDPattern reaches FastLED.show(), also inside
\* the rate-limit window and while a transition is active.
C20_EveryPassShows == [][patternCall'.shown]_vars

\* ---------------------------------------------------------------------
\* Properties of the exponential smoothing (SpecSmooth)
\* ---------------------------------------------------------------------

\* C19 as stated: one smoothing update yields a value strictly between the
\* prior smoothed value and the new intensity, for every prior value and
\* every new intensity in 0..255.
C19_StrictlyBetween ==
    [][patternCall'.outcome = "smoothed" =>
           LET prior == patternCall'.prior
               new == patternCall'.intensity * SmoothUnit
           IN  /\ Min(prior, new) < smoothedPresenceIntensity'
               /\ smoothedPresenceIntensity' < Max(prior, new)]_vars

\* C19: one smoothing update yields a value between the prior smoothed value
\* and the new intensity, both included, and strictly between them when the
\* two differ by at least 1.
C19_Between ==
    [][patternCall'.outcome = "smoothed" =>
           LET prior == patternCall'.prior
               new == patternCall'.intensity * SmoothUnit
           IN  /\ Min(prior, new) <= smoothedPresenceIntensity'
               /\ smoothedPresenceIntensity' <= Max(prior, new)
               /\ Abs(prior - new) >= SmoothUnit =>
                      /\ Min(prior, new) < smoothedPresenceIntensity'
                      /\ smoothedPresenceIntensity' < Max(prior, new)]_vars

\* A smoothing update from a fractional prior value towards an intensity
\* more than 1 above it.
C19_SmoothedUp ==
    /\ patternCall.outcome = "smoothed"
    /\ patternCall.prior % SmoothUnit # 0
    /\ patternCall.intensity * SmoothUnit > patternCall.prior + SmoothUnit
    /\ smoothedPresenceIntensity > patternCall.prior

\* ---------------------------------------------------------------------
\* Properties of repeated calls of updateLEDPattern (SpecRepeat)
\* ---------------------------------------------------------------------

\* C17 as stated: a call of updateLEDPattern that repeats the arguments of
\* the call before it, with no time elapsed between the two, never emits.
C17_RepeatNeverEmits ==
    [][env'.repeat => patternCall'.outcome # "emitted"]_vars

\* C17: calls of updateLEDPattern with identical arguments and no time
\* elapsed between them emit at most once: a repeated call after an
\* emission at that time does not emit.
C17_RepeatEmitsOnce ==
    [][(env'.repeat /\ lastPatternChange = now) =>
           patternCall'.outcome # "emitted"]_vars

\* A repeated call right after an emission left a candidate that exceeds
\* the thresholds again, and emitted nothing.
C17_RepeatHeldBack ==
    /\ env.repeat
    /\ lastPatternChange = now
    /\ patternCall.outcome # "emitted"
    /\ LET c == Candidate(env.args.presence, env.args.motion,
                          SmoothedInt(smoothedPresenceIntensity),
                          SmoothedInt(smoothedMotionIntensity))
       IN  Abs(c.brightness - lastBrightness) > 8

\* ---------------------------------------------------------------------
\* Properties of the stored intensity (SpecIntensity)
\* ---------------------------------------------------------------------

\* Entry k is the least n with 60 * log10(n) >= k - 1/2, for n up to 32769.
Log60HalfSteps ==
    <<2, 2, 2, 2, 2, 2, 2, 2, 2, 2, 2, 2,
       2, 2, 2, 2, 2, 2, 3, 3, 3, 3, 3, 3,
       3, 3, 3, 3, 3, 4, 4, 4, 4, 4, 4, 4,
       5, 5, 5, 5, 5, 5, 6, 6, 6, 6, 6, 7,
       7, 7, 7, 8, 8, 8, 9, 9, 9, 10, 10, 10,
       11, 11, 12, 12, 12, 13, 13, 14, 14, 15, 15, 16,
       17, 17, 18, 19, 19, 20, 21, 22, 22, 23, 24, 25,
       26, 27, 28, 29, 30, 32, 33, 34, 35, 37, 38, 40,
       41, 43, 44, 46, 48, 50, 52, 54, 56, 58, 60, 62,
       65, 67, 70, 73, 75, 78, 81, 85, 88, 91, 95, 99,
       102, 106, 111, 115, 119, 124, 129, 134, 139, 144, 150, 156,
       162, 168, 175, 182, 189, 196, 204, 212, 220, 229, 238, 247,
       257, 267, 277, 288, 299, 311, 323, 335, 349, 362, 376, 391,
       406, 422, 439, 456, 474, 492, 511, 531, 552, 574, 596, 619,
       644, 669, 695, 722, 750, 780, 810, 842, 875, 909, 945, 981,
       1020, 1060, 1101, 1144, 1189, 1235, 1284, 1334, 1386, 1440, 1497, 1555,
       1616, 1679, 1745, 1813, 1884, 1958, 2034, 2114, 2197, 2283, 2372, 2465,
       2561, 2661, 2765, 2873, 2986, 3103, 3224, 3350, 3481, 3617, 3759, 3906,
       4059, 4217, 4382, 4554, 4732, 4917, 5109, 5309, 5517, 5733, 5957, 6190,
       6432, 6684, 6945, 7217, 7499, 7793, 8098, 8414, 8744, 9086, 9441, 9810,
       10194, 10593, 11007, 11438, 11886, 12350, 12834, 13336, 13857, 14400, 14963, 15548,
       16156, 16789, 17445, 18128, 18837, 19574, 20340, 21135, 21962, 22821, 23714, 24642,
       25606, 26608, 27649, 28730, 29854, 31022, 32236>>

\* Entry k is the least n with 70 * log10(n) >= k - 1/2, for n up to 32769.
Log70HalfSteps ==
    <<2, 2, 2, 2, 2, 2, 2, 2, 2, 2, 2, 2,
       2, 2, 2, 2, 2, 2, 2, 2, 2, 3, 3, 3,
       3, 3, 3, 3, 3, 3, 3, 3, 3, 4, 4, 4,
       4, 4, 4, 4, 4, 4, 5, 5, 5, 5, 5, 5,
       5, 6, 6, 6, 6, 6, 7, 7, 7, 7, 7, 8,
       8, 8, 8, 9, 9, 9, 9, 10, 10, 10, 11, 11,
       11, 12, 12, 12, 13, 13, 14, 14, 15, 15, 16, 16,
       17, 17, 18, 18, 19, 19, 20, 21, 21, 22, 23, 24,
       24, 25, 26, 27, 28, 29, 30, 31, 32, 33, 34, 35,
       36, 37, 38, 40, 41, 42, 44, 45, 47, 48, 50, 51,
       53, 55, 57, 59, 61, 63, 65, 67, 69, 71, 74, 76,
       79, 81, 84, 87, 90, 93, 96, 99, 102, 106, 109, 113,
       116, 120, 124, 128, 133, 137, 142, 146, 151, 156, 162, 167,
       173, 178, 184, 190, 197, 203, 210, 217, 224, 232, 240, 248,
       256, 264, 273, 282, 292, 302, 312, 322, 333, 344, 355, 367,
       379, 392, 405, 419, 433, 447, 462, 478, 494, 510, 527, 545,
       563, 582, 601, 621, 642, 663, 686, 708, 732, 757, 782, 808,
       835, 863, 892, 922, 952, 984, 1017, 1051, 1086, 1123, 1160, 1199,
       1239, 1280, 1323, 1367, 1413, 1460, 1509, 1560, 1612, 1666, 1721, 1779,
       1838, 1900, 1963, 2029, 2097, 2167, 2239, 2314, 2391, 2471, 2554, 2639,
       2728, 2819, 2913, 3011, 3111, 3215, 3323, 3434, 3549, 3667, 3790, 3917,
       4048, 4183, 4323, 4467, 4617, 4771, 4931, 5095, 5266, 5442, 5624, 5812,
       6006, 6207, 6415, 6629, 6851, 7080, 7317, 7561, 7814, 8076, 8346, 8625,
       8913, 9211, 9519, 9837, 10166, 10506, 10858, 11221, 11596, 11984, 12384, 12799,
       13227, 13669, 14126, 14598, 15086, 15591, 16112, 16651, 17208, 17783, 18378, 18993,
       19628, 20284, 20962, 21663, 22388, 23136, 23910, 24710, 25536, 26390, 27272, 28184,
       29127, 30101, 31107, 32148>>

\* round(log10(n) * scale), n in 1 .. 32769.
LogRounded(n, scale) ==
    LET t == IF scale = PRESENCE_LOG_SCALE_FACTOR THEN Log60HalfSteps
             ELSE Log70HalfSteps
    IN  Cardinality({k \in 1 .. Len(t) : t[k] <= n})

\* C21: the intensity stored for a qualifying reading is
\* clamp(round(log10(|raw| + 1) * SCALE_FACTOR), 0, 255), for int16_t
\* readings from one end of the range to the other and both scale factors.
C21_IntensityIsClampedLog ==
    sample.done =>
        /\ Abs(sample.a) > PRESENCE_MIN_VALUE =>
               sample.ia = Constrain(LogRounded(Abs(sample.a) + 1, sample.scale),
                                     0, 255)
        /\ Abs(sample.b) > PRESENCE_MIN_VALUE =>
               sample.ib = Constrain(LogRounded(Abs(sample.b) + 1, sample.scale),
                                     0, 255)

\* ---------------------------------------------------------------------
\* Properties of the debounce counters (SpecSensor)
\* ---------------------------------------------------------------------

\* The counter a poll has incremented: the detect counter after a
\* qualifying sample, the non-detect counter otherwise.
ActiveCounterAfter(ch, r) ==
    IF r'.q > 0 THEN ch'.detectionCount ELSE ch'.nonDetectionCount

\* A poll that leaves the active counter short of the debounce count leaves
\* the flag and the intensity alone.
StickyBelowCount(ch, r) ==
    ActiveCounterAfter(ch, r) < DEBOUNCE_COUNT =>
        /\ ch'.detected = ch.detected
        /\ ch'.intensity = ch.intensity

\* C22: on a poll after which the channel's active counter is still below
\* DEBOUNCE_COUNT, the channel's detected flag and its intensity keep their
\* previous values.
C22_StickyBetweenThresholds ==
    [][(run' # run) =>
           /\ StickyBelowCount(presence, run.p)
           /\ StickyBelowCount(motion, run.m)]_vars

\* The presence channel is still detected at intensity 138 after two
\* non-qualifying polls.
C22_HeldThroughTwoPolls ==
    /\ presence.detected
    /\ presence.intensity = 138
    /\ presence.nonDetectionCount = DEBOUNCE_COUNT - 1
    /\ run.p.nq = DEBOUNCE_COUNT - 1

\* What a poll does to the two counters of a channel: both stay within
\* 0..255, the one it increments does not fall and is not 0, the other is 0.
CountersSaturate(ch, r) ==
    /\ ch'.detectionCount \in 0 .. 255
    /\ ch'.nonDetectionCount \in 0 .. 255
    /\ ch'.detectionCount = 0 \/ ch'.nonDetectionCount = 0
    /\ IF r'.q > 0
       THEN /\ ch'.detectionCount >= ch.detectionCount
            /\ ch'.detectionCount > 0
       ELSE /\ ch'.nonDetectionCount >= ch.nonDetectionCount
            /\ ch'.nonDetectionCount > 0
    /\ r'.q >= DEBOUNCE_COUNT => ch'.detected
    /\ r'.nq >= DEBOUNCE_COUNT => ~ch'.detected

\* C23: each channel's detect and non-detect counters saturate at 255 and
\* never wrap to 0, after every poll at most one of the two is non-zero, and
\* however long a run of qualifying (non-qualifying) polls gets, the flag
\* stays true (false).
C23_CountersSaturate ==
    [][(run' # run \/ presence' # presence \/ motion' # motion) =>
           /\ CountersSaturate(presence, run.p)
           /\ CountersSaturate(motion, run.m)]_vars

\* The presence detect counter stands at 255 in a run of qualifying polls,
\* the motion non-detect counter at 255 in a run of non-qualifying ones.
C23_BothSaturated ==
    /\ presence.detectionCount = 255 /\ presence.detected
    /\ motion.nonDetectionCount = 255 /\ ~motion.detected


----------------------------------------------------------------------------
(* One glow point followed through its life (SpecPoint)                     *)

\* gentleGlow arguments of the single-life specification: steps 1, 1, 2, 5
\* and 12 of the current revision (2, 3, 3, 7 and 15 of the target-buffer
\* revision), and targets from 0 to 255.
PointSpeeds == {0, 39, 40, 100, 255}
PointBrightness == {0, 1, 2, 13, 255}

\* The latest time the clock reaches while one point lives.
MaxPointNow == 9000

\* The draws of the call that creates the point and of the calls after it.
PointSpawnDraws == [roll |-> 255, pos |-> 1, hueVar |-> 5, spreadVar |-> 1, intensityVar |-> 0]
PointQuietDraws == [roll |-> 0, pos |-> 1, hueVar |-> 5, spreadVar |-> 1, intensityVar |-> 0]

\* The main loop calls gentleGlow with one speed and one brightness; the
\* record remembers them and counts the updates the point took while Growing.
PointInit ==
    /\ revision \in Revisions
    /\ GlowInit /\ SensorInit /\ TransInit /\ TbInit
    /\ mainRevision = "latest" /\ MapperInit
    /\ sample \in [speed : PointSpeeds, brightness : PointBrightness,
                   ticks : {0}, born : {FALSE}]

\* The gentleGlow call that creates the point.
PointSpawn ==
    /\ revision = "current"
    /\ ~sample.born
    /\ GentleGlowStep(160, sample.brightness, sample.speed, 1, RollsFor({}),
                      PointSpawnDraws)
    /\ sample' = [sample EXCEPT !.born = TRUE]
    /\ UNCHANGED <<revision, mapperVars, rendered, tbVars, sensorVars, transVars>>

\* A later gentleGlow call, which updates and renders the point.
PointUpdate ==
    /\ revision = "current"
    /\ sample.born
    /\ ActiveCountOf(glowPoints) > 0
    /\ \E fading \in SUBSET StableSlots(glowPoints) :
           GentleGlowStep(160, sample.brightness, sample.speed, 1,
                          RollsFor(fading), PointQuietDraws)
    /\ sample' = [sample EXCEPT
                     !.ticks = IF glowPoints[0].active /\ glowPoints[0].state = Growing
                               THEN @ + 1 ELSE @]
    /\ UNCHANGED <<revision, mapperVars, rendered, tbVars, sensorVars, transVars>>

\* A gentleGlow call of the target-buffer revision: the first due call
\* creates the point and updates it at once, the later ones update it.
TbPointCall ==
    /\ revision = "targetBuffer"
    /\ tbCall.op # "gentleGlow"
    /\ sample.born => TbOccupiedCount(tbPoints) > 0
    /\ TbGentleGlowStep(160, sample.brightness, sample.speed, 1,
                        [roll |-> IF sample.born THEN 255 ELSE 0, pos |-> 1,
                         hueVar |-> 15])
    /\ sample' = [sample EXCEPT
                     !.born = @ \/ tbCall'.slot # NoCall,
                     !.ticks = IF tbCall'.slot # NoCall
                                  \/ (TbOccupied(tbPoints[0]) /\ tbPoints[0].state = Growing)
                               THEN @ + 1 ELSE @]
    /\ UNCHANGED <<revision, mapperVars, rendered, glowVars, sensorVars, transVars,
                   tbTargetLeds, tbPreviousLeds, tbTransitioning, tbStartTime,
                   tbDuration>>

TbPointTick == revision = "targetBuffer" /\ TbPassTick(MaxPointNow)

PointNext == PointSpawn \/ PointUpdate \/ TbPointCall \/ TbPointTick

\* One glow point from its creation to its removal, of either revision.
SpecPoint == PointInit /\ [][PointNext]_vars

\* C24: while Fading, a glow point loses half the growth step of the same
\* speed on every update (the step of the point itself in the target-buffer
\* revision).
C24_FadesByHalfStep ==
    [][/\ (revision = "current" /\ glowPoints' # glowPoints) =>
              \A i \in Slots :
                  (glowPoints[i].active /\ glowPoints[i].state = Fading
                       /\ glowPoints'[i].active) =>
                      glowPoints'[i].currentIntensity
                          = glowPoints[i].currentIntensity
                                - (Max(1, sample.speed \div 20) \div 2)
       /\ (revision = "targetBuffer" /\ tbPoints' # tbPoints) =>
              \A i \in Slots :
                  (TbOccupied(tbPoints[i]) /\ tbPoints[i].state = Fading
                       /\ TbOccupied(tbPoints'[i])) =>
                      tbPoints'[i].intensity
                          = tbPoints[i].intensity - (tbPoints[i].speed \div 2)
      ]_vars

\* What C25 asks of one update of the point that was Growing: the point
\* stays, its intensity rises by at least 1 or stops at the target, it is
\* Stable exactly when the target is reached, and the updates it has taken
\* while Growing are fewer than max(1, target) if it is still Growing and no
\* more than that if it is Stable.
GrowsToTarget(before, after, target, state, ticks) ==
    /\ after >= Min(before + 1, target)
    /\ after <= target
    /\ state = (IF after = target THEN Stable ELSE Growing)
    /\ ticks <= Max(1, target)
    /\ state = Growing => ticks < Max(1, target)

\* C25: while Growing every update adds a step of at least 1, clamped to
\* the point's own target, the point turns Stable on the update that reaches
\* the target, and that happens within max(1, target) updates.
C25_GrowsToTargetInBoundedTicks ==
    [][/\ (revision = "current" /\ sample.born /\ glowPoints[0].active
               /\ glowPoints[0].state = Growing) =>
              /\ glowPoints'[0].active
              /\ GrowsToTarget(glowPoints[0].currentIntensity,
                               glowPoints'[0].currentIntensity,
                               glowPoints[0].maxIntensity,
                               glowPoints'[0].state, sample'.ticks)
       /\ (revision = "targetBuffer" /\ tbCall'.op = "gentleGlow" /\ tbCall'.due
               /\ TbOccupied(tbPoints[0]) /\ tbPoints[0].state = Growing) =>
              /\ TbOccupied(tbPoints'[0])
              /\ GrowsToTarget(tbPoints[0].intensity, tbPoints'[0].intensity,
                               tbPoints[0].maxIntensity, tbPoints'[0].state,
                               sample'.ticks)
      ]_vars

\* A point of the current revision that took 255 updates of step 1 to reach
\* its target of 255.
C25_StableAfterLongGrowth ==
    /\ revision = "current"
    /\ glowPoints[0].active
    /\ glowPoints[0].state = Stable
    /\ glowPoints[0].currentIntensity = 255
    /\ sample.ticks = 255

RECURSIVE RenderFrom(_, _, _)
\* The frame renderGlowPoint builds on buf from the slots i .. MAX_GLOW_POINTS-1
\* of a pool, inactive slots adding nothing.
RenderFrom(pool, buf, i) ==
    IF i >= MAX_GLOW_POINTS THEN buf
    ELSE RenderFrom(pool, renderGlowPoint(buf, pool[i]), i + 1)

\* C26: a gentleGlow call deactivates a point only if it was Fading with an
\* intensity at most the step of the call, never a Growing or a Stable one,
\* and the frame of that call holds the points still active and nothing of
\* the one deactivated.
C26_DeactivatedOnlyWhenFadedOut ==
    [][(revision = "current" /\ sample.born) =>
           \A i \in Slots :
               (glowPoints[i].active /\ ~glowPoints'[i].active) =>
                   /\ glowPoints[i].state = Fading
                   /\ glowPoints[i].currentIntensity <= Max(1, sample.speed \div 20)
                   /\ leds' = RenderFrom(glowPoints', Black, 0)
      ]_vars

\* A point removed by the call at speed 255 (step 12) with 3 of its
\* intensity left, and a black frame.
C26_RemovedWithIntensityLeft ==
    /\ revision = "current"
    /\ sample.born
    /\ sample.speed = 255
    /\ ~glowPoints[0].active
    /\ glowPoints[0].state = Fading
    /\ glowPoints[0].currentIntensity = 3
    /\ leds = Black

----------------------------------------------------------------------------
(* The spawn of gentleGlow on its own (SpecSpawn)                           *)

\* Arguments of the call: hues at both ends of the circle, brightness below
\* and above the largest intensity jitter (19), spread 0 and spread 255.
SpawnHues == {0, 160, 255}
SpawnBrightness == {0, 5, 19, 20, 255}
SpawnSpeeds == {0, 255}

\* The calls the spawn specification starts from, with the draws of
\* random16(numLeds) and random8(n): the current revision draws a hue jitter
\* below 10, a spread jitter below 2 and an intensity jitter below 20, the
\* target-buffer revision a hue jitter below 31.
SpawnSamples(rev) ==
    IF rev = "current"
    THEN {[hue |-> h, brightness |-> b, speed |-> sp, spread |-> w, called |-> FALSE,
           d |-> [roll |-> 255, pos |-> ps, hueVar |-> j.hueVar,
                  spreadVar |-> j.spreadVar, intensityVar |-> j.intensityVar]] :
             h \in SpawnHues, b \in SpawnBrightness, sp \in SpawnSpeeds,
             w \in {0, 1, 3, 255}, ps \in 0 .. (NumLeds - 1),
             j \in {[hueVar |-> 0, spreadVar |-> 0, intensityVar |-> 19],
                    [hueVar |-> 9, spreadVar |-> 1, intensityVar |-> 0]}}
    ELSE {[hue |-> h, brightness |-> b, speed |-> sp, spread |-> w, called |-> FALSE,
           d |-> [roll |-> 0, pos |-> ps, hueVar |-> hv]] :
             h \in SpawnHues, b \in SpawnBrightness, sp \in SpawnSpeeds,
             w \in {0, 1, 3}, ps \in 0 .. (NumLeds - 1), hv \in {0, 30}}

SpawnInit ==
    /\ revision \in Revisions
    /\ GlowInit /\ SensorInit /\ TransInit /\ TbInit
    /\ mainRevision = "latest" /\ MapperInit
    /\ sample \in SpawnSamples(revision)

\* The first gentleGlow call of the current revision, on the empty pool.
SpawnCall ==
    /\ revision = "current"
    /\ ~sample.called
    /\ GentleGlowStep(sample.hue, sample.brightness, sample.speed, sample.spread,
                      RollsFor({}), sample.d)
    /\ sample' = [sample EXCEPT !.called = TRUE]
    /\ UNCHANGED <<revision, mapperVars, rendered, tbVars, sensorVars, transVars>>

\* millis() reaches the first pool update of the target-buffer revision.
TbSpawnWait ==
    /\ revision = "targetBuffer"
    /\ now = 0
    /\ now' = GlowUpdatePeriod
    /\ tbCall' = TbCallOf("tick", FALSE)
    /\ UNCHANGED <<revision, mapperVars, rendered, glowVars, sensorVars, sample, prevLeds,
                   transitionActive, transitionStartTime, transitionDuration,
                   lastCall, tbPoints, tbActive, tbLastGlowUpdate, tbLeds,
                   tbTargetLeds, tbPreviousLeds, tbTransitioning, tbStartTime,
                   tbDuration>>

\* The first due gentleGlow call of the target-buffer revision.
TbSpawnCall ==
    /\ revision = "targetBuffer"
    /\ ~sample.called
    /\ now >= GlowUpdatePeriod
    /\ TbGentleGlowStep(sample.hue, sample.brightness, sample.speed, sample.spread,
                        sample.d)
    /\ sample' = [sample EXCEPT !.called = TRUE]
    /\ UNCHANGED <<revision, mapperVars, rendered, glowVars, sensorVars, transVars,
                   tbTargetLeds, tbPreviousLeds, tbTransitioning, tbStartTime,
                   tbDuration>>

SpawnNext == SpawnCall \/ TbSpawnWait \/ TbSpawnCall

\* One spawning call of gentleGlow over the 8-bit extremes of its arguments.
SpecSpawn == SpawnInit /\ [][SpawnNext]_vars

\* The distance of two hues on the 8-bit colour circle.
HueDistance(a, b) == Min((a - b) % 256, (b - a) % 256)

\* C27: the point a successful spawn writes lies on the strip, starts at
\* intensity 0, Growing and active, and its hue, target intensity and spread
\* are within the jitter of the arguments of the call (5 for the hue, 15 in
\* the target-buffer revision; 19 for the target; 1 for the spread).
C27_SpawnedPointNearBase ==
    /\ (revision = "current" /\ sample.called /\ spawn.ret \in Slots) =>
           LET p == glowPoints[spawn.ret] IN
           /\ p.active
           /\ p.pos \in 0 .. (NumLeds - 1)
           /\ p.currentIntensity = 0
           /\ p.state = Growing
           /\ HueDistance(p.hue, sample.hue) <= 5
           /\ Abs(p.maxIntensity - sample.brightness) <= 19
           /\ Abs(p.spread - sample.spread) <= 1
    /\ (revision = "targetBuffer" /\ sample.called /\ tbCall.slot \in Slots) =>
           LET p == tbCall.born IN
           /\ p.position \in 0 .. (NumLeds - 1)
           /\ p.intensity = 0
           /\ p.state = Growing
           /\ HueDistance(p.hue, sample.hue) <= 15
           /\ Abs(p.maxIntensity - sample.brightness) <= 19

\* C28: the target intensity of a spawned point is at most the brightness
\* of the call and its spread is within 1 of the spread of the call, for
\* every 8-bit argument.
C28_SpawnArithmeticSaturates ==
    (revision = "current" /\ sample.called /\ spawn.ret \in Slots) =>
        /\ glowPoints[spawn.ret].maxIntensity <= sample.brightness
        /\ Abs(glowPoints[spawn.ret].spread - sample.spread) <= 1

----------------------------------------------------------------------------
(* The pixels the renderer writes (SpecRender)                              *)

\* The indices renderGlowPoint(index) writes for the point p: actualPos for
\* every offset -spread .. spread.
RenderIndices(p) ==
    IF ~p.active THEN {}
    ELSE {WrapPos(p.pos, i) : i \in (0 - p.spread) .. p.spread}

\* The indices the drawing part of updateGlowPoint(pointIndex, spread) of
\* the target-buffer revision writes for the point p: the centre, then
\* leftPos and rightPos of every offset the loop does not skip.  The
\* remainder keeps the sign of (position - i + _numLeds).
TbDrawIndices(p, spreadArg) ==
    LET maxSpread == TbMaxSpread(spreadArg)
        drawn == {i \in 1 .. maxSpread : TbFalloff(p.intensity, maxSpread, i) # 0}
    IN  {p.position}
            \cup {CRem(p.position - i + NumLeds, NumLeds) : i \in drawn}
            \cup {CRem(p.position + i, NumLeds) : i \in drawn}

\* The gentleGlow calls per behaviour of the current revision and the
\* latest time of the target-buffer revision in the renderer's specification.
MaxRenderCalls == 3
MaxRenderNow == 80

\* Spreads from 0 to beyond the strip, every position, the slowest and the
\* fastest growth.
RenderSamples ==
    [pos : 0 .. (NumLeds - 1), spread : {0, 1, 3, 10, 60}, speed : {0, 255},
     brightness : {100, 255}, calls : {0}, written : {{}}]

RenderInit ==
    /\ revision \in Revisions
    /\ GlowInit /\ SensorInit /\ TransInit /\ TbInit
    /\ mainRevision = "latest" /\ MapperInit
    /\ sample \in RenderSamples

\* A gentleGlow call of the current revision: the first one creates the
\* point with the spread of the call, the later ones update and render it.
RenderCall ==
    /\ revision = "current"
    /\ sample.calls < MaxRenderCalls
    /\ GentleGlowStep(160, sample.brightness, sample.speed, sample.spread,
                      RollsFor({}),
                      [roll |-> IF sample.calls = 0 THEN 255 ELSE 0,
                       pos |-> sample.pos, hueVar |-> 5, spreadVar |-> 1,
                       intensityVar |-> 0])
    /\ sample' = [sample EXCEPT
                     !.calls = @ + 1,
                     !.written = UNION {RenderIndices(glowPoints'[i]) :
                                           i \in {j \in Slots : glowPoints[j].active}}]
    /\ UNCHANGED <<revision, mapperVars, rendered, tbVars, sensorVars, transVars>>

\* A gentleGlow call of the target-buffer revision: the first due one
\* creates the point, and every due one draws the points it leaves alive.
TbRenderCall ==
    /\ revision = "targetBuffer"
    /\ tbCall.op # "gentleGlow"
    /\ TbGentleGlowStep(160, sample.brightness, sample.speed, sample.spread,
                        [roll |-> IF TbOccupiedCount(tbPoints) = 0 THEN 0 ELSE 255,
                         pos |-> sample.pos, hueVar |-> 15])
    /\ sample' = [sample EXCEPT
                     !.written = IF tbCall'.due
                                 THEN UNION {TbDrawIndices(tbPoints'[i], sample.spread) :
                                                i \in {j \in Slots : TbOccupied(tbPoints'[j])}}
                                 ELSE {}]
    /\ UNCHANGED <<revision, mapperVars, rendered, glowVars, sensorVars, transVars,
                   tbTargetLeds, tbPreviousLeds, tbTransitioning, tbStartTime,
                   tbDuration>>

TbRenderTick == revision = "targetBuffer" /\ TbPassTick(MaxRenderNow)

RenderNext == RenderCall \/ TbRenderCall \/ TbRenderTick

\* The first calls of gentleGlow with the indices each call writes.
SpecRender == RenderInit /\ [][RenderNext]_vars

\* C29: every index a call writes lies on the strip and is (pos + i) mod
\* strip length for an offset i in -spread .. spread.
C29_WrittenIndicesWrapOntoStrip ==
    \A k \in sample.written :
        /\ k \in 0 .. (NumLeds - 1)
        /\ \E i \in (0 - sample.spread) .. sample.spread :
               k = (sample.pos + i) % NumLeds

----------------------------------------------------------------------------
(* The emission of updateLEDPattern on either library (SpecEmit)            *)

\* Parameter sets the mapper emits: the idle one and the one of a presence
\* whose smoothed intensity is still 0.
EmitCandidates == {Candidate(FALSE, FALSE, 0, 0), Candidate(TRUE, FALSE, 0, 0)}

\* Emissions per behaviour and the latest time of the emission specification.
MaxEmissions == 3
MaxEmitNow == 100

EmitInit ==
    /\ revision \in Revisions
    /\ GlowInit /\ SensorInit /\ TransInit /\ TbInit
    /\ mainRevision = "latest" /\ MapperInit
    /\ sample = [emissions |-> 0]

\* The emission of updateLEDPattern linked with the current library:
\* captureCurrentState(), gentleGlow(...), startTransition(TRANSITION_DURATION).
EmitGlow ==
    /\ revision = "current"
    /\ sample.emissions < MaxEmissions
    /\ \E c \in EmitCandidates : EmitCalls(c, TRANSITION_DURATION, FALSE)
    /\ sample' = [sample EXCEPT !.emissions = @ + 1]
    /\ UNCHANGED <<revision, mapperVars, tbVars, sensorVars, now>>

\* The same three calls on the target-buffer library, whose
\* startTransition begins with a captureCurrentState() of its own.
TbEmitGlow ==
    /\ revision = "targetBuffer"
    /\ sample.emissions < MaxEmissions
    /\ \E c \in EmitCandidates :
           TbGentleGlowStep(c.hue, c.brightness, c.speed, c.spread,
                            [roll |-> 0, pos |-> 1, hueVar |-> 15])
    /\ tbPreviousLeds' = tbLeds'
    /\ tbStartTime' = now
    /\ tbDuration' = TRANSITION_DURATION
    /\ tbTransitioning' = TRUE
    /\ sample' = [sample EXCEPT !.emissions = @ + 1]
    /\ UNCHANGED <<revision, mapperVars, rendered, glowVars, sensorVars, transVars,
                   tbTargetLeds>>

\* millis() moves on by one pass of the loop.
EmitTick ==
    /\ now + PassTime <= MaxEmitNow
    /\ now' = now + PassTime
    /\ IF revision = "current"
       THEN lastCall' = [op |-> "tick", ret |-> FALSE] /\ UNCHANGED tbCall
       ELSE tbCall' = TbCallOf("tick", FALSE) /\ UNCHANGED lastCall
    /\ UNCHANGED <<revision, mapperVars, rendered, glowVars, sensorVars, sample, prevLeds,
                   transitionActive, transitionStartTime, transitionDuration,
                   tbPoints, tbActive, tbLastGlowUpdate, tbLeds, tbTargetLeds,
                   tbPreviousLeds, tbTransitioning, tbStartTime, tbDuration>>

EmitNext ==
    \/ EmitGlow \/ UpdateTransitions \/ TbEmitGlow \/ TbUpdateTransitions
    \/ EmitTick

\* Emissions, transition updates and the clock, on either library.
SpecEmit == EmitInit /\ [][EmitNext]_vars

\* C30: an emission leaves in the previous-frame buffer the frame the strip
\* buffer held before the emission rendered into it, and records the start
\* time, the duration and the active flag of the transition.
C30_PreviousIsFrameBeforeRender ==
    [][(sample'.emissions # sample.emissions) =>
           IF revision = "current"
           THEN /\ prevLeds' = leds
                /\ transitionActive'
                /\ transitionStartTime' = now
                /\ transitionDuration' = 300
           ELSE /\ tbPreviousLeds' = tbLeds
                /\ tbTransitioning'
                /\ tbStartTime' = now
                /\ tbDuration' = 300
      ]_vars

----------------------------------------------------------------------------
(* The candidate parameters on their own (SpecCandidate)                    *)

\* Smoothed intensities on either side of the two cuts and at both ends.
CandidateLevels == {0, 1, 63, 64, 65, 127, 128, 129, 191, 254, 255}

\* The calls the candidate computation is applied to: every truncated
\* smoothed intensity 0..255 of one channel against the levels of the other.
CandidateSamples ==
    {[presence |-> pr, motion |-> mo, sP |-> x.sP, sM |-> x.sM, done |-> FALSE,
      c |-> [hue |-> 0, brightness |-> 0, speed |-> 0, spread |-> 0]] :
        pr \in BOOLEAN, mo \in BOOLEAN,
        x \in [sP : 0 .. 255, sM : CandidateLevels]
                 \cup [sP : CandidateLevels, sM : 0 .. 255]}

CandidateInit ==
    /\ revision = "current"
    /\ GlowInit /\ SensorInit /\ TransInit /\ TbInit
    /\ mainRevision \in MainRevisions /\ MapperInit
    /\ sample \in CandidateSamples

\* The parameter computation of updateLEDPattern, the same in both revisions.
ComputeCandidate ==
    /\ ~sample.done
    /\ sample' = [sample EXCEPT
                     !.c = Candidate(sample.presence, sample.motion, sample.sP,
                                     sample.sM),
                     !.done = TRUE]
    /\ UNCHANGED <<revision, mapperVars, rendered, glowVars, tbVars, sensorVars, transVars>>

\* The candidate computation over the smoothed intensities 0..255.
SpecCandidate == CandidateInit /\ [][ComputeCandidate]_vars

\* C31: the hue follows the motion channel whenever motion is detected with
\* a smoothed intensity above 128 (from 96 down to 0), else the presence
\* channel when presence is detected above 64 (from 160 down to 96), and is
\* 160 in every other case.
C31_HueByStrictPriority ==
    sample.done =>
        sample.c.hue =
            IF sample.motion /\ sample.sM > 128
            THEN 96 - ((sample.sM - 128) * 96) \div 127
            ELSE IF sample.presence /\ sample.sP > 64
            THEN 160 - ((sample.sP - 64) * 64) \div 191
            ELSE 160

\* Both channels detected above their cuts: the hue is the one of the motion
\* channel.
C31_MotionWinsOverPresence ==
    /\ sample.done
    /\ sample.motion /\ sample.sM = 191
    /\ sample.presence /\ sample.sP = 255
    /\ sample.c.hue = 49

\* C32: with neither channel detected the candidate brightness is 100
\* (BRIGHTNESS_MIN + 20) and the candidate speed 25 (SPEED_MIN + 5),
\* whatever the smoothed intensities are.
C32_IdleFloorWhenNothingDetected ==
    (sample.done /\ ~sample.presence /\ ~sample.motion) =>
        /\ sample.c.brightness = 100
        /\ sample.c.speed = 25

\* Nothing detected while both smoothed intensities are still at 255.
C32_IdleWithSaturatedIntensities ==
    /\ sample.done
    /\ ~sample.presence /\ ~sample.motion
    /\ sample.sP = 255 /\ sample.sM = 255
    /\ sample.c.brightness = 100 /\ sample.c.speed = 25

\* C33: every candidate has its brightness in 80..220, its speed in 20..100
\* and its spread in 3..8.
C33_CandidateWithinRanges ==
    sample.done =>
        /\ sample.c.brightness \in 80 .. 220
        /\ sample.c.speed \in 20 .. 100
        /\ sample.c.spread \in 3 .. 8

\* The candidate at the top of all three ranges.
C33_CandidateAtUpperEnds ==
    /\ sample.done
    /\ sample.c.brightness = 220
    /\ sample.c.speed = 100
    /\ sample.c.spread = 8

----------------------------------------------------------------------------
(* One glow point under a loop that keeps calling (SpecPointLive)           *)

\* When a gentleGlow call of the loop can act on the point, that is, change
\* the state: ENABLED <<A>>_vars of the call, written out.
PointSpawnDue == revision = "current" /\ ~sample.born
PointUpdateDue ==
    /\ revision = "current"
    /\ sample.born
    /\ ActiveCountOf(glowPoints) > 0
    /\ \/ glowPoints[0].active /\ glowPoints[0].state = Growing
       \/ \E fading \in SUBSET StableSlots(glowPoints) :
              GentleGlowResult(glowPoints, 160, sample.brightness, sample.speed, 1,
                               RollsFor(fading), PointQuietDraws)
                  # [pool |-> glowPoints, buf |-> leds, info |-> spawn]
TbPointCallDue ==
    /\ revision = "targetBuffer"
    /\ tbCall.op # "gentleGlow"
    /\ sample.born => TbOccupiedCount(tbPoints) > 0

\* A Stable point whose roll random8() < 5 may come up.
PointRollDue == PointUpdateDue /\ glowPoints[0].state = Stable

\* The loop keeps calling gentleGlow and millis() keeps moving: weak
\* fairness of each call, []<>~ENABLED <<A>>_vars \/ []<><<A>>_vars, with
\* the enabling condition of the call written out.  The roll random8() < 5
\* of a Stable point is fair: strong fairness of the fading outcome,
\* <>[]~ENABLED <<A>>_vars \/ []<><<A>>_vars.
PointFairness ==
    /\ []<>(~PointSpawnDue) \/ []<><<PointSpawn>>_vars
    /\ []<>(~PointUpdateDue) \/ []<><<PointUpdate>>_vars
    /\ <>[](~PointRollDue)
       \/ []<><<PointUpdate /\ glowPoints[0].state = Stable
                            /\ glowPoints'[0].state = Fading>>_vars
    /\ []<>(~TbPointCallDue) \/ []<><<TbPointCall>>_vars
    /\ WF_vars(TbPointTick)

SpecPointLive == PointInit /\ [][PointNext]_vars /\ PointFairness

\* C34: every spawned glow point is removed in the end, its slot free again.
C34_SpawnedPointIsRemoved ==
    sample.born ~> (/\ sample.born
                    /\ ActiveCountOf(glowPoints) = 0
                    /\ TbOccupiedCount(tbPoints) = 0)

\* A point of the target-buffer revision removed after the longest growth,
\* 127 updates.
C34_RemovedAfterLongestLife ==
    /\ revision = "targetBuffer"
    /\ sample.born
    /\ sample.ticks = 127
    /\ TbOccupiedCount(tbPoints) = 0

----------------------------------------------------------------------------
(* The gate of the latest main loop (SpecMain)                              *)

\* The static transitionActive of updateLEDPattern after the block that
\* follows the poll: set when the poll returns true, cleared when it
\* returns false.
StaticFlagAfterPoll(flag, isInTransition) ==
    IF isInTransition THEN TRUE
    ELSE IF flag THEN FALSE
    ELSE flag

\* The poll ledPatterns.updateTransitions() at the top of the pass.
PollAtTop ==
    TransitionTick(leds, prevLeds, transitionActive, transitionStartTime,
                   transitionDuration, now)

\* C35: in the latest main loop a pass that emits (and so calls
\* startTransition) finds the library's transition over after its poll, and
\* the loop's static flag equal to the library's flag at that point.
C35_StartOnlyWhenIdle ==
    [][(mainRevision = "latest" /\ patternCall'.outcome = "emitted")
       => /\ ~PollAtTop.active
          /\ StaticFlagAfterPoll(updTransitionActive, PollAtTop.ret)
                 = PollAtTop.active]_vars

\* A second emission of the latest loop, a rest time or more after setup.
C35_EmittedAfterRest ==
    /\ mainRevision = "latest"
    /\ patternCall.outcome = "emitted"
    /\ lastTransitionStart >= 3000 + 350
    /\ transitionActive

\* C36: a pass of the main loop that emits no update leaves the glow-point
\* pool as it was; the pool changes only on passes that emit.
C36_PoolAdvancesOnlyOnEmission ==
    [][patternCall'.outcome # "emitted" => glowPoints' = glowPoints]_vars

\* A pass without emission over a pool that holds a Growing point.
C36_QuietPassOverGrowingPoint ==
    /\ patternCall.outcome \in {"interval", "rest", "within"}
    /\ glowPoints[0].active
    /\ glowPoints[0].state = Growing
    /\ glowPoints[0].currentIntensity < glowPoints[0].maxIntensity

----------------------------------------------------------------------------
(* A transition of duration zero (SpecTrans)                                *)

\* An updateTransitions call of the current library on a transition started
\* with duration 0 returns false and clears the flag; a call that blends
\* (returns true) has 0 <= elapsed < duration.
ZeroDurationCompletes ==
    lastCall'.op = "updateTransitions" /\ transitionActive
        => /\ transitionDuration = 0
                => /\ ~lastCall'.ret
                   /\ ~transitionActive'
                   /\ leds' = leds
           /\ lastCall'.ret
                => /\ 0 <= now - transitionStartTime
                   /\ now - transitionStartTime < transitionDuration

\* The same of the target-buffer revision, where completion shows the
\* target frame.
TbZeroDurationCompletes ==
    tbCall'.op = "updateTransitions" /\ tbTransitioning
        => /\ tbDuration = 0
                => /\ ~tbCall'.ret
                   /\ ~tbTransitioning'
                   /\ tbLeds' = tbTargetLeds
           /\ tbCall'.ret
                => /\ 0 <= now - tbStartTime
                   /\ now - tbStartTime < tbDuration

\* C37: after startTransition(0) the first updateTransitions completes the
\* transition (returns false, flag cleared) without computing the progress,
\* which is computed only when 0 <= elapsed < duration, so that it never
\* divides by zero.
C37_ZeroDurationCompletesAtOnce ==
    [][ZeroDurationCompletes /\ TbZeroDurationCompletes]_vars

\* A transition started with duration 0 after the clock moved, over at the
\* first updateTransitions.
C37_ZeroDurationOver ==
    /\ revision = "current"
    /\ lastCall.op = "updateTransitions"
    /\ ~lastCall.ret
    /\ ~transitionActive
    /\ transitionDuration = 0
    /\ transitionStartTime > 0
    /\ now = transitionStartTime

----------------------------------------------------------------------------
(* Flag and intensity of a channel (SpecSensor)                             *)

\* C38: in every reachable state of the debounced conditioner a channel
\* whose detected flag is false has intensity 0.
C38_UndetectedMeansZeroIntensity ==
    /\ ~presence.detected => presence.intensity = 0
    /\ ~motion.detected => motion.intensity = 0

\* The presence channel cleared by three non-qualifying polls after it was
\* detected with its counter at 255, while motion is still detected.
C38_ClearedChannelAtZero ==
    /\ run.p.sat
    /\ ~presence.detected
    /\ presence.nonDetectionCount = 3
    /\ presence.intensity = 0
    /\ motion.detected
    /\ motion.intensity > 0

----------------------------------------------------------------------------
(* The counter of the target-buffer pool (SpecCount)                        *)

\* The spawn roll comes up in the first passes, until the pool is full, and
\* again from the time the oldest points have faded out; the clock stops
\* after the slots were reused.
CountSpawnUntil == 100
CountSpawnAgainFrom == 480
MaxCountNow == 640

\* A gentleGlow call of the loop on the target-buffer library.
TbCountGlow ==
    /\ revision = "targetBuffer"
    /\ tbCall.op # "gentleGlow"
    /\ \E a \in TbPoolArgs : \E d \in TbPoolDraws :
           /\ TbSpawnRoll(d.roll, a.speed)
                  => (now <= CountSpawnUntil \/ now >= CountSpawnAgainFrom)
           /\ TbGentleGlowStep(a.hue, a.brightness, a.speed, a.spread, d)
    /\ UNCHANGED <<revision, mapperVars, rendered, glowVars, sensorVars, transVars,
                   sample, tbTargetLeds, tbPreviousLeds, tbTransitioning,
                   tbStartTime, tbDuration>>

TbCountTick == revision = "targetBuffer" /\ TbPassTick(MaxCountNow)

CountInit == Init /\ revision = "targetBuffer"

CountNext == TbCountGlow \/ TbCountTick

\* The target-buffer pool filled, emptied by fading and filled again.
SpecCount == CountInit /\ [][CountNext]_vars

\* C39: in the target-buffer revision, after every gentleGlow call
\* _activeGlowPoints equals the number of occupied slots, those not at
\* state 0 with intensity 0.
C39_CounterEqualsOccupiedSlots ==
    tbCall.op = "gentleGlow" => tbActive = TbOccupiedCount(tbPoints)

\* A call that put a new point into slot 0, freed by fading, while the
\* point of slot 1 is still Fading.
C39_SlotReusedWhileOthersFade ==
    /\ tbCall.op = "gentleGlow"
    /\ tbCall.slot = 0
    /\ now >= 480
    /\ tbPoints[1].state = Fading
    /\ tbActive >= 2
============================================================================
